---------------------------- MODULE Spec2Model ----------------------------
(***************************************************************************)
(* A model of the toss terminal rendering library: the cell buffer with    *)
(* its clip stack (src/src/buffer.rs), the presenter (src/src/terminal.rs),*)
(* the word wrapper (src/src/wrap.rs, src/src/styled.rs) and the segment   *)
(* balancer (src/src/widgets/join.rs).                                     *)
(*                                                                         *)
(* Each subsystem has its own variables and its own specification; a       *)
(* specification leaves the other subsystems' variables at their idle      *)
(* values.                                                                 *)
(***************************************************************************)
EXTENDS Integers, Sequences, FiniteSets, TLC

VARIABLES
    buf,        \* Buffer: [size, data, cursor, stack]
    bpre,       \* history: buf.data before the last write
    btouched,   \* history: data indices assigned by the last write (not by erase)
    bop,        \* history: the last buffer operation and its arguments
    nwrites,    \* writes since the last resize (bounded by MaxWrites)
    term,       \* Terminal: [frame, prev_frame_buffer, full_redraw]
    screen,     \* the physical terminal: [size, cells]
    tout,       \* history: the commands the last present queued
    tres,       \* history: outcome of the last present and what it started from
    thist,      \* history: redraw events and failures since the last presents
    tdraws,     \* writes into the current frame (bounded by MaxDraws)
    win,        \* input of the wrapper: [text, width, tab_width]
    wout,       \* what the wrapper returned: the offsets, then the split lines
    segs,       \* the segments handed to the balancer
    bal,        \* what balance made of them: [kind, available, sizes, panic]
    sty,        \* a Styled under construction: [text, styles]
    sres,       \* what split_at made of it: [kind, mid, left, right]
    wdb,        \* WidthDb: [measure, tab_width, known, requested]
    wlast       \* history: the last width database operation, its inputs and result

bufVars == <<buf, bpre, btouched, bop, nwrites>>
termVars == <<term, screen, tout, tres, thist, tdraws>>
wrapVars == <<win, wout>>
balVars == <<segs, bal>>
styledVars == <<sty, sres>>
widthVars == <<wdb, wlast>>

vars == <<bufVars, termVars, wrapVars, balVars, styledVars, widthVars>>

\* What the actions of one subsystem leave alone.
notBuf == <<termVars, wrapVars, balVars, styledVars, widthVars>>
notTerm == <<bufVars, wrapVars, balVars, styledVars, widthVars>>
notWrap == <<bufVars, termVars, balVars, styledVars, widthVars>>
notBal == <<bufVars, termVars, wrapVars, styledVars, widthVars>>
notStyled == <<bufVars, termVars, wrapVars, balVars, widthVars>>
notWidth == <<bufVars, termVars, wrapVars, balVars, styledVars>>

---------------------------------------------------------------------------
(* Bounds of the model *)

BufW == 4           \* columns of the buffer under test
BufH == 2           \* rows of the buffer under test
MaxDepth == 2       \* clip frames on the stack
MaxWrites == 2      \* writes per frame (between two resizes)
MaxDraws == 1       \* writes into one frame of the terminal
MaxLen == 4         \* graphemes of a text handed to wrap
MaxSegs == 2        \* segments handed to balance
MaxRuns == 3         \* style runs of a Styled
ClipWrites == 1      \* writes between two resizes of the clip stack machine

---------------------------------------------------------------------------
(* Styles: crossterm's ContentStyle, reduced to two optional colours.      *)
(* 0 stands for None.                                                      *)

\* Option::None; every Some value of the model is a record with other fields.
None == [none |-> TRUE]

DefaultStyle == [fg |-> 0, bg |-> 0]

\* src/src/style.rs merge_cs: every colour the cover leaves unset falls back
\* to the base.
merge_cs(base, cover) ==
    [fg |-> IF cover.fg # 0 THEN cover.fg ELSE base.fg,
     bg |-> IF cover.bg # 0 THEN cover.bg ELSE base.bg]

\* src/src/style.rs Style::cover; a Style is [content_style, opaque].
Cover(self, base) ==
    IF self.opaque THEN self
    ELSE [content_style |-> merge_cs(base.content_style, self.content_style),
          opaque |-> base.opaque]

---------------------------------------------------------------------------
(* Width database (src/src/widthdb.rs)                                     *)

\* The graphemes of the model: "a" a letter, "W" a wide ideograph, " " a
\* space, "\t" a tab, "\n" a newline, "!" an exclamation mark.
Tab == "\t"

\* "Z" is an emoji sequence joined by a zero-width joiner: two wide
\* characters around the joiner, shown as one wide glyph.
\* Legacy estimate: the sum of the widths of the non-control characters.
EstimateWidth(g) ==
    CASE g = "W" -> 2
      [] g = "Z" -> 4
      [] g = "\n" -> 0
      [] g = Tab -> 0
      [] OTHER -> 1

\* Unicode estimate: the width of the string between the control characters.
UnicodeWidth(g) == IF g = "Z" THEN 2 ELSE EstimateWidth(g)

\* The match on self.estimate at the end of grapheme_width.
Estimate(db, g) == IF db.estimate = "Unicode" THEN UnicodeWidth(g) ELSE EstimateWidth(g)

DefaultWidthDb ==
    [estimate |-> "Legacy", measure |-> FALSE, tab_width |-> 8,
     known |-> <<>>, requested |-> {}]

\* A tab that always takes a whole tab width.
tab_width_whole(db, col) == db.tab_width

\* Called with tab_width > 0 only: col % 0 panics.
tab_width_at_column(db, col) == db.tab_width - (col % db.tab_width)

\* A grapheme_width that never looks a grapheme up.
grapheme_width_forgetful(db, g, col) ==
    IF g = Tab
    THEN [panic |-> db.tab_width = 0,
          width |-> IF db.tab_width = 0 THEN 0 ELSE tab_width_at_column(db, col),
          db |-> db]
    ELSE [panic |-> FALSE,
          width |-> Estimate(db, g),
          db |-> IF db.measure THEN [db EXCEPT !.requested = @ \cup {g}] ELSE db]

\* A grapheme_width that queues unknown graphemes in either mode.
grapheme_width_eager(db, g, col) ==
    IF g = Tab
    THEN [panic |-> db.tab_width = 0,
          width |-> IF db.tab_width = 0 THEN 0 ELSE tab_width_at_column(db, col),
          db |-> db]
    ELSE IF db.measure /\ g \in DOMAIN db.known
         THEN [panic |-> FALSE, width |-> db.known[g], db |-> db]
    ELSE [panic |-> FALSE,
          width |-> Estimate(db, g),
          db |-> IF g \in DOMAIN db.known THEN db
                 ELSE [db EXCEPT !.requested = @ \cup {g}]]

\* grapheme_width returns the width and the database after the call; with a
\* tab width of 0 the remainder in tab_width_at_column panics.
grapheme_width(db, g, col) ==
    IF g = Tab
    THEN (IF db.tab_width = 0
          THEN [panic |-> TRUE, width |-> 0, db |-> db]
          ELSE [panic |-> FALSE, width |-> tab_width_at_column(db, col), db |-> db])
    ELSE IF db.measure /\ g \in DOMAIN db.known
         THEN [panic |-> FALSE, width |-> db.known[g], db |-> db]
    ELSE [panic |-> FALSE,
          width |-> Estimate(db, g),
          db |-> IF db.measure
                 THEN [db EXCEPT !.requested = @ \cup {g}]
                 ELSE db]

---------------------------------------------------------------------------
(* Cell buffer (src/src/buffer.rs)                                         *)

Pos(x, y) == [x |-> x, y |-> y]
Size(w, h) == [width |-> w, height |-> h]

Blank == [content |-> " ", style |-> DefaultStyle, width |-> 1, offset |-> 0]

BlankData(size) == [i \in 1..(size.width * size.height) |-> Blank]

EmptyBuffer == [size |-> Size(0, 0), data |-> <<>>, cursor |-> None, stack |-> <<>>]

\* Index in data of the cell at (x, y); data is a 1-based sequence.
Index(size, x, y) == y * size.width + x + 1

At(b, x, y) == b.data[Index(b.size, x, y)]

Max(a, b) == IF a >= b THEN a ELSE b
Min(a, b) == IF a <= b THEN a ELSE b

intersect_areas(a_start, a_size, b_start, b_size) ==
    LET a_end == Pos(a_start.x + a_size.width, a_start.y + a_size.height)
        b_end == Pos(b_start.x + b_size.width, b_start.y + b_size.height)
        x_start == Max(a_start.x, b_start.x)
        x_end == Min(a_end.x, b_end.x)
        y_start == Max(a_start.y, b_start.y)
        y_end == Min(a_end.y, b_end.y)
    IN IF x_start < x_end /\ y_start < y_end
       THEN [pos |-> Pos(x_start, y_start),
             size |-> Size(x_end - x_start, y_end - y_start)]
       ELSE None

local_to_global(frame, p) == Pos(p.x + frame.pos.x, p.y + frame.pos.y)

global_to_local(frame, p) == Pos(p.x - frame.pos.x, p.y - frame.pos.y)

\* StackFrame::then
Then(frame, pos, size) ==
    LET gpos == local_to_global(frame, pos)
    IN [pos |-> gpos,
        size |-> size,
        drawable_area |->
            IF frame.drawable_area = None THEN None
            ELSE intersect_areas(frame.drawable_area.pos, frame.drawable_area.size,
                                 gpos, size)]

current_frame(b) ==
    IF Len(b.stack) > 0 THEN b.stack[Len(b.stack)]
    ELSE [pos |-> Pos(0, 0), size |-> b.size,
          drawable_area |-> [pos |-> Pos(0, 0), size |-> b.size]]

\* The x and y ranges where drawing is allowed, as [x0, x1, y0, y1] with
\* exclusive ends, or None.
legal_ranges(frame) ==
    IF frame.drawable_area = None THEN None
    ELSE LET da == frame.drawable_area
         IN [x0 |-> da.pos.x, x1 |-> da.pos.x + da.size.width,
             y0 |-> da.pos.y, y1 |-> da.pos.y + da.size.height]

Push(b, pos, size) == [b EXCEPT !.stack = Append(@, Then(current_frame(b), pos, size))]

\* A pop that drops every frame.
PopAll(b) == [b EXCEPT !.stack = <<>>]

Pop(b) == [b EXCEPT !.stack = IF Len(@) = 0 THEN @ ELSE SubSeq(@, 1, Len(@) - 1)]

set_cursor(b, p) ==
    [b EXCEPT !.cursor = IF p = None THEN None ELSE local_to_global(current_frame(b), p)]

\* A resize that keeps the cells when the size stays the same.
ResizeKeeping(b, size) ==
    [size |-> size,
     data |-> IF size = b.size THEN b.data ELSE BlankData(size),
     cursor |-> None, stack |-> <<>>]

Resize(b, size) ==
    [size |-> size, data |-> BlankData(size), cursor |-> None, stack |-> <<>>]

\* Buffer::reset
Reset(b) == Resize(b, b.size)

\* Buffer::size
BufferSize(b) == current_frame(b).size

\* An erase that blanks only the cell it is pointed at.
EraseOnlyCell(data, size, x, y) ==
    [i \in DOMAIN data |->
        IF i = Index(size, x, y) THEN [Blank EXCEPT !.style = data[i].style]
        ELSE data[i]]

\* Buffer::erase on the data of a buffer of the given size: the whole
\* grapheme at (x, y) becomes blank, each cell keeping its style.
Erase(data, size, x, y) ==
    LET cell == data[Index(size, x, y)]
        first == Index(size, x - cell.offset, y)
        last == Index(size, x - cell.offset + cell.width - 1, y)
    IN [i \in DOMAIN data |->
          IF i \in first..last THEN [Blank EXCEPT !.style = data[i].style]
          ELSE data[i]]

\* The cell write_grapheme stores at column x of a grapheme starting at
\* column base.
NewCell(old, full, base, x, width, g, style) ==
    IF full THEN [content |-> g, style |-> style, width |-> width, offset |-> x - base]
    ELSE [Blank EXCEPT !.style = style]

\* The assertions of Buffer::at and at_mut.
InBuffer(size, x, y) == 0 <= x /\ x < size.width /\ 0 <= y /\ y < size.height

\* The cells Buffer::erase visits for the cell at (x, y) are in the buffer.
EraseInBuffer(data, size, x, y) ==
    LET cell == data[Index(size, x, y)]
    IN \A ex \in (x - cell.offset)..(x - cell.offset + cell.width - 1) :
          InBuffer(size, ex, y)

\* i32 as u16
AsU16(n) == n % 65536

\* The loops of write_grapheme: for each x in first..last, erase, then
\* assign the cell.  st is [data, cursor, touched, db, panic]; a failed
\* assertion ends the call.
RECURSIVE PutCells(_, _, _, _, _, _, _, _, _, _)
PutCells(st, size, y, x, last, full, base, width, g, style) ==
    IF st.panic \/ x > last THEN st
    ELSE IF ~InBuffer(size, x, y) THEN [st EXCEPT !.panic = TRUE]
    ELSE IF ~EraseInBuffer(st.data, size, x, y) THEN [st EXCEPT !.panic = TRUE]
    ELSE LET i == Index(size, x, y)
             erased == Erase(st.data, size, x, y)
             placed == [erased EXCEPT ![i] = NewCell(erased[i], full, base, x, width, g, style)]
         IN PutCells([st EXCEPT !.data = placed, !.touched = @ \cup {i}],
                     size, y, x + 1, last, full, base, width, g, style)

\* First column written when the grapheme is only partially visible.
PartialStart(start_x, min_x) == Max(start_x, 0)

write_grapheme(st, size, r, x, y, width, g, style) ==
    LET min_x == r.x0
        max_x == r.x1 - 1
        start_x == x
        end_x == x + width - 1
    IN IF st.panic \/ start_x > max_x \/ end_x < min_x THEN st
       ELSE LET put ==
                  IF start_x >= min_x /\ end_x <= max_x
                  THEN PutCells(st, size, y, start_x, start_x + width - 1,
                                TRUE, start_x, width, g, style)
                  ELSE PutCells(st, size, y, AsU16(PartialStart(start_x, min_x)),
                                AsU16(Min(end_x, max_x)), FALSE, start_x, width, g, style)
            IN IF put.cursor # None /\ put.cursor.y = y
                  /\ start_x <= put.cursor.x /\ put.cursor.x <= end_x
               THEN [put EXCEPT !.cursor = None]
               ELSE put

\* A tab is written as `width` one-column spaces.
RECURSIVE WriteTab(_, _, _, _, _, _, _, _)
WriteTab(st, size, r, x, y, dx, width, style) ==
    IF st.panic \/ dx >= width THEN st
    ELSE WriteTab(write_grapheme(st, size, r, x + dx, y, 1, " ", style),
                  size, r, x, y, dx + 1, width, style)

\* The loop of Buffer::write over the graphemes of the text, from index k.
RECURSIVE WriteLoop(_, _, _, _, _, _, _, _, _)
WriteLoop(st, size, r, db, gpos, text, style, k, col) ==
    IF st.panic \/ k > Len(text) THEN st
    ELSE LET x == gpos.x + col
             g == text[k]
             gw == grapheme_width(db, g, col)
             width == gw.width
             next ==
                IF gw.panic THEN [st EXCEPT !.panic = TRUE]
                ELSE IF g = Tab THEN WriteTab(st, size, r, x, gpos.y, 0, width, style)
                ELSE IF width > 0
                     THEN write_grapheme(st, size, r, x, gpos.y, width, g, style)
                     ELSE st
         IN WriteLoop([next EXCEPT !.db = gw.db], size, r, gw.db, gpos, text, style,
                      k + 1, col + width)

\* Buffer::write of the graphemes `text`, all in one style.  Returns
\* [data, cursor, touched, db, panic]: the cells, the cursor, the indices
\* assigned, the width database after the call and whether an assertion
\* failed.
Write(b, db, pos, text, style) ==
    LET frame == current_frame(b)
        r == legal_ranges(frame)
        gpos == local_to_global(frame, pos)
        st0 == [data |-> b.data, cursor |-> b.cursor, touched |-> {}, db |-> db,
                panic |-> FALSE]
    IN IF r = None THEN st0
       ELSE IF ~(gpos.y >= r.y0 /\ gpos.y < r.y1) THEN st0
       ELSE WriteLoop(st0, b.size, r, db, gpos, text, style, 1, 0)

---------------------------------------------------------------------------
(* Frame (src/src/frame.rs) and Terminal (src/src/terminal.rs)             *)

EmptyFrame ==
    [widthdb |-> DefaultWidthDb, buffer |-> EmptyBuffer, cursor |-> None, title |-> None]

\* Frame::reset
FrameReset(f) == [f EXCEPT !.buffer = Resize(f.buffer, f.buffer.size), !.cursor = None]

\* Frame::size
FrameSize(f) == current_frame(f.buffer).size

\* Frame::cursor
FrameCursor(f) ==
    IF f.cursor = None THEN None ELSE global_to_local(current_frame(f.buffer), f.cursor)

\* Frame::write
FrameWrite(f, pos, text, style) ==
    LET res == Write(f.buffer, f.widthdb, pos, text, style)
    IN [f EXCEPT !.buffer.data = res.data, !.buffer.cursor = res.cursor,
                 !.widthdb = res.db]

\* Terminal::with_target
NewTerminal == [frame |-> EmptyFrame, prev_frame_buffer |-> EmptyBuffer, full_redraw |-> TRUE]

\* The head cells Buffer::cells yields from (x, y) on, as <<x, y, cell>>.
RECURSIVE CellsFrom(_, _, _)
CellsFrom(b, x, y) ==
    IF y >= b.size.height THEN <<>>
    ELSE LET cell == At(b, x, y)
             nx == x + cell.width
         IN <<[x |-> x, y |-> y, cell |-> cell]>>
            \o (IF nx >= b.size.width THEN CellsFrom(b, 0, y + 1)
                ELSE CellsFrom(b, nx, y))

Cells(b) == CellsFrom(b, 0, 0)

\* Whether an assertion fails while Cells is iterated from (x, y): the
\* bounds assertions of Buffer::at or the assertion cell.offset == 0.
RECURSIVE CellsAssertionFails(_, _, _)
CellsAssertionFails(b, x, y) ==
    IF y >= b.size.height THEN FALSE
    ELSE IF ~InBuffer(b.size, x, y) THEN TRUE
    ELSE LET cell == At(b, x, y)
             nx == x + cell.width
         IN IF cell.offset # 0 THEN TRUE
            ELSE IF nx >= b.size.width THEN CellsAssertionFails(b, 0, y + 1)
            ELSE CellsAssertionFails(b, nx, y)

Cmd(op) == [op |-> op]
MoveTo(x, y) == [op |-> "MoveTo", x |-> x, y |-> y]
PrintStyledContent(content, style) == [op |-> "Print", content |-> content, style |-> style]

\* A diff that compares the contents of the cells only.
RECURSIVE DiffContentOnly(_, _, _)
DiffContentOnly(cells, prev, k) ==
    IF k > Len(cells) THEN <<>>
    ELSE LET c == cells[k]
         IN (IF At(prev, c.x, c.y).content = c.cell.content THEN <<>>
             ELSE <<MoveTo(c.x, c.y), PrintStyledContent(c.cell.content, c.cell.style)>>)
            \o DiffContentOnly(cells, prev, k + 1)

\* The loop of Terminal::draw_differences over the head cells of the frame.
RECURSIVE DiffLoop(_, _, _)
DiffLoop(cells, prev, k) ==
    IF k > Len(cells) THEN <<>>
    ELSE LET c == cells[k]
         IN (IF At(prev, c.x, c.y) = c.cell THEN <<>>
             ELSE <<MoveTo(c.x, c.y), PrintStyledContent(c.cell.content, c.cell.style)>>)
            \o DiffLoop(cells, prev, k + 1)

draw_differences(frame, prev) == DiffLoop(Cells(frame.buffer), prev, 1)

update_cursor(frame) ==
    LET pos == FrameCursor(frame)
        size == FrameSize(frame)
    IN IF pos # None /\ 0 <= pos.x /\ pos.x < size.width /\ 0 <= pos.y /\ pos.y < size.height
       THEN <<Cmd("Show"), MoveTo(pos.x, pos.y)>>
       ELSE <<Cmd("Hide")>>

update_title(frame) == IF frame.title = None THEN <<>> ELSE <<Cmd("SetTitle")>>

\* The previous buffer draw_to_screen diffs against: reset when a full
\* redraw is due, because the screen is then empty.
PrevForDiff(t) ==
    IF t.full_redraw THEN Resize(t.prev_frame_buffer, t.prev_frame_buffer.size)
    ELSE t.prev_frame_buffer

\* A present that places the cursor before it draws the cells.
PresentQueueCursorFirst(t) ==
    <<Cmd("Begin")>>
    \o (IF t.full_redraw THEN <<Cmd("Clear")>> ELSE <<>>)
    \o update_cursor(t.frame)
    \o draw_differences(t.frame, PrevForDiff(t))
    \o update_title(t.frame)
    \o <<Cmd("End")>>

\* Every command a present queues, in order, when no queue call fails:
\* present's BeginSynchronizedUpdate, draw_to_screen, EndSynchronizedUpdate.
PresentQueue(t) ==
    <<Cmd("Begin")>>
    \o (IF t.full_redraw THEN <<Cmd("Clear")>> ELSE <<>>)
    \o draw_differences(t.frame, PrevForDiff(t))
    \o update_cursor(t.frame)
    \o update_title(t.frame)
    \o <<Cmd("End")>>

\* A present that swaps the buffers and leaves the drawn cells in the
\* frame.
PresentOkKeeping(t) ==
    [t EXCEPT !.prev_frame_buffer = t.frame.buffer, !.full_redraw = FALSE]

\* Terminal::present when every queue call and the flush succeed.
PresentOk(t) ==
    [t EXCEPT !.prev_frame_buffer = t.frame.buffer,
              !.frame = FrameReset(t.frame),
              !.full_redraw = FALSE]

\* Terminal::present when queue call number k fails (k = Len(queue) + 1: the
\* flush fails).  The Clear, when due, is call number 2; once it is queued
\* the previous buffer is reset and the flag cleared.  Nothing is swapped.
PresentErr(t, k) ==
    IF t.full_redraw /\ k > 2
    THEN [t EXCEPT !.prev_frame_buffer = PrevForDiff(t), !.full_redraw = FALSE]
    ELSE t

\* An autoresize that resizes the buffers without asking for a redraw.
AutoresizeNoRedraw(t, size) ==
    IF size # FrameSize(t.frame)
    THEN [t EXCEPT !.frame.buffer = Resize(@, size),
                   !.prev_frame_buffer = Resize(@, size)]
    ELSE t

\* An autoresize that leaves the previous buffer at its old size.
AutoresizeFrameOnly(t, size) ==
    IF size # FrameSize(t.frame)
    THEN [t EXCEPT !.frame.buffer = Resize(@, size), !.full_redraw = TRUE]
    ELSE t

\* Terminal::autoresize, with the size crossterm reports.
Autoresize(t, size) ==
    IF size # FrameSize(t.frame)
    THEN [t EXCEPT !.frame.buffer = Resize(@, size),
                   !.prev_frame_buffer = Resize(@, size),
                   !.full_redraw = TRUE]
    ELSE t

\* Terminal::mark_dirty
mark_dirty(t) == [t EXCEPT !.full_redraw = TRUE]

\* Terminal::unsuspend when its commands succeed.
unsuspend(t) == [t EXCEPT !.full_redraw = TRUE]

\* Terminal::set_measuring
set_measuring(t, active) == [t EXCEPT !.frame.widthdb.measure = active]

measuring_required(db) == db.measure /\ db.requested # {}

IsAsciiControl(g) == g \in {"\n", Tab}

\* A measure_widths that leaves the measured graphemes queued.
measure_widths_keeping(db, cols) ==
    IF ~db.measure THEN db
    ELSE [db EXCEPT
            !.known = [g \in (DOMAIN db.known) \cup db.requested |->
                         IF g \in db.requested
                         THEN (IF IsAsciiControl(g) THEN 0 ELSE cols[g] % 256)
                         ELSE db.known[g]]]

\* WidthDb::measure_widths when the terminal answers every query; cols[g]
\* is the cursor column the terminal reports after printing g.
measure_widths(db, cols) ==
    IF ~db.measure THEN db
    ELSE [db EXCEPT
            !.known = [g \in (DOMAIN db.known) \cup db.requested |->
                         IF g \in db.requested
                         THEN (IF IsAsciiControl(g) THEN 0 ELSE cols[g] % 256)
                         ELSE db.known[g]],
            !.requested = {}]

\* WidthDb::measure_widths when a write or the position query fails: the
\* graphemes in done were drained and recorded before, and dropping the
\* drain iterator removes the others from requested.
measure_widths_failing(db, cols, done) ==
    [db EXCEPT
       !.known = [g \in (DOMAIN db.known) \cup done |->
                    IF g \in done
                    THEN (IF IsAsciiControl(g) THEN 0 ELSE cols[g] % 256)
                    ELSE db.known[g]],
       !.requested = {}]

\* A Terminal::measure_widths that asks for the redraw and measures nothing.
TerminalMeasureWidthsSkipping(t, cols) ==
    IF measuring_required(t.frame.widthdb)
    THEN [t EXCEPT !.full_redraw = TRUE]
    ELSE t

\* Terminal::measure_widths when the terminal answers every query.
TerminalMeasureWidths(t, cols) ==
    IF measuring_required(t.frame.widthdb)
    THEN [t EXCEPT !.full_redraw = TRUE,
                   !.frame.widthdb = measure_widths(t.frame.widthdb, cols)]
    ELSE t

\* Terminal::measure_widths when the measurement fails part-way.
TerminalMeasureWidthsFailing(t, cols, done) ==
    [t EXCEPT !.full_redraw = TRUE,
              !.frame.widthdb = measure_widths_failing(t.frame.widthdb, cols, done)]

\* Terminal::set_tab_width
set_tab_width(t, tab_width) == [t EXCEPT !.frame.widthdb.tab_width = tab_width]

(* The physical terminal the commands are sent to.  A cell shows a column  *)
(* of a glyph in a style; Junk is content the program knows nothing about. *)

Junk == [content |-> "?", style |-> DefaultStyle, offset |-> 0]
ScreenBlank == [content |-> " ", style |-> DefaultStyle, offset |-> 0]

JunkScreen(size) == [size |-> size, cells |-> [i \in 1..(size.width * size.height) |-> Junk]]

\* The columns a glyph takes on the terminal.
GlyphWidth(g) == EstimateWidth(g)

\* Printing a glyph at (x, y): its columns that fit get the glyph, and what
\* is left of a wide glyph it overlaps shows junk.
ScreenPrint(sc, x, y, content, style) ==
    LET w == GlyphWidth(content)
        ix(c) == y * sc.size.width + c + 1
        mine == {ix(c) : c \in {c \in x..(x + w - 1) : c < sc.size.width}}
        OldSpan(i) == (i - sc.cells[i].offset)..(i - sc.cells[i].offset + GlyphWidth(sc.cells[i].content) - 1)
        torn == UNION {OldSpan(i) : i \in mine} \ mine
    IN IF y >= sc.size.height \/ x >= sc.size.width THEN sc
       ELSE [sc EXCEPT !.cells =
               [i \in DOMAIN sc.cells |->
                  IF i \in mine
                  THEN [content |-> content, style |-> style, offset |-> i - ix(x)]
                  ELSE IF i \in torn THEN Junk
                  ELSE sc.cells[i]]]

\* The screen after the terminal received the commands cmds[k..]; pos is
\* where the last MoveTo put the cursor.
RECURSIVE Deliver(_, _, _, _)
Deliver(sc, cmds, k, pos) ==
    IF k > Len(cmds) THEN sc
    ELSE LET c == cmds[k]
         IN IF c.op = "Clear"
            THEN Deliver([sc EXCEPT !.cells = [i \in DOMAIN sc.cells |-> ScreenBlank]],
                         cmds, k + 1, pos)
            ELSE IF c.op = "MoveTo" THEN Deliver(sc, cmds, k + 1, Pos(c.x, c.y))
            ELSE IF c.op = "Print"
                 THEN Deliver(ScreenPrint(sc, pos.x, pos.y, c.content, c.style),
                              cmds, k + 1, pos)
            ELSE Deliver(sc, cmds, k + 1, pos)

\* The screen shows the cells of buffer b, and blanks where b has no cell.
ScreenShows(sc, b) ==
    \A i \in DOMAIN sc.cells :
        LET x == (i - 1) % sc.size.width
            y == (i - 1) \div sc.size.width
        IN IF x < b.size.width /\ y < b.size.height
           THEN LET c == At(b, x, y)
                IN sc.cells[i] = [content |-> c.content, style |-> c.style, offset |-> c.offset]
           ELSE sc.cells[i] = ScreenBlank

---------------------------------------------------------------------------
(* Styled text (src/src/styled.rs).  A text is a sequence of bytes; the    *)
(* wide grapheme "W" takes three of them, its lead byte and two            *)
(* continuation bytes "~".                                                 *)

Alphabet == {"a", " ", "\n", Tab, "W", "!"}

Continuation == "~"

Bytes(g) == IF g = "W" THEN <<"W", Continuation, Continuation>> ELSE <<g>>

RECURSIVE Encode(_)
Encode(gs) == IF gs = <<>> THEN <<>> ELSE Bytes(Head(gs)) \o Encode(Tail(gs))

IsLead(b) == b # Continuation

\* str::graphemes: every grapheme of the model is one character, named by
\* its lead byte.
Graphemes(bytes) == SelectSeq(bytes, IsLead)

\* str::grapheme_indices: the byte offset of every grapheme.
RECURSIVE GraphemeIndicesFrom(_, _)
GraphemeIndicesFrom(bytes, i) ==
    IF i > Len(bytes) THEN <<>>
    ELSE (IF IsLead(bytes[i]) THEN <<i - 1>> ELSE <<>>) \o GraphemeIndicesFrom(bytes, i + 1)

grapheme_indices(bytes) == GraphemeIndicesFrom(bytes, 1)

\* str::is_char_boundary
is_char_boundary(bytes, mid) ==
    \/ mid = 0
    \/ mid = Len(bytes)
    \/ (0 < mid /\ mid < Len(bytes) /\ IsLead(bytes[mid + 1]))

\* Styled::default: no text and no runs.
StyledDefault == [text |-> <<>>, styles |-> <<>>]

\* Styled::then: an empty text adds no run.
then(s, bytes, style) ==
    IF bytes = <<>> THEN s
    ELSE [text |-> s.text \o bytes,
          styles |-> Append(s.styles, [style |-> style, until |-> Len(s.text) + Len(bytes)])]

\* Styled::and_then: the runs of other, shifted by the length of self.
and_then(s, other) ==
    [text |-> s.text \o other.text,
     styles |-> s.styles \o [k \in 1..Len(other.styles) |->
                                [other.styles[k] EXCEPT !.until = @ + Len(s.text)]]]

\* Styled::new
StyledOf(bytes, style) == then(StyledDefault, bytes, style)

\* The loop of Styled::split_at over the runs; acc is [left, right, from].
RECURSIVE SplitStyles(_, _, _, _)
SplitStyles(styles, mid, k, acc) ==
    IF k > Len(styles) THEN acc
    ELSE LET run == styles[k]
             l == IF acc.from < mid
                  THEN Append(acc.left, [style |-> run.style, until |-> Max(run.until, mid)])
                  ELSE acc.left
             r == IF mid < run.until
                  THEN Append(acc.right, [style |-> run.style, until |-> Max(run.until - mid, 0)])
                  ELSE acc.right
         IN SplitStyles(styles, mid, k + 1, [left |-> l, right |-> r, from |-> run.until])

\* Styled::split_at; str::split_at panics off a character boundary.
split_at(s, mid) ==
    IF ~is_char_boundary(s.text, mid) THEN [panic |-> TRUE]
    ELSE LET st == SplitStyles(s.styles, mid, 1, [left |-> <<>>, right |-> <<>>, from |-> 0])
         IN [panic |-> FALSE,
             left |-> [text |-> SubSeq(s.text, 1, mid), styles |-> st.left],
             right |-> [text |-> SubSeq(s.text, mid + 1, Len(s.text)), styles |-> st.right]]

\* A split that drops the byte at the split point.
RECURSIVE SplitLoopLossy(_, _, _, _, _)
SplitLoopLossy(indices, k, rest, offset, lines) ==
    IF k > Len(indices) THEN [panic |-> FALSE, lines |-> Append(lines, rest)]
    ELSE IF indices[k] - offset < 0 THEN [panic |-> TRUE, lines |-> lines]
    ELSE LET sp == split_at(rest, indices[k] - offset)
         IN IF sp.panic THEN [panic |-> TRUE, lines |-> lines]
            ELSE SplitLoopLossy(indices, k + 1, [sp.right EXCEPT !.text = Tail(@)],
                                indices[k], Append(lines, sp.left))

\* The loop of Styled::split_at_indices; i - offset panics below zero.
RECURSIVE SplitLoop(_, _, _, _, _)
SplitLoop(indices, k, rest, offset, lines) ==
    IF k > Len(indices) THEN [panic |-> FALSE, lines |-> Append(lines, rest)]
    ELSE IF indices[k] - offset < 0 THEN [panic |-> TRUE, lines |-> lines]
    ELSE LET sp == split_at(rest, indices[k] - offset)
         IN IF sp.panic THEN [panic |-> TRUE, lines |-> lines]
            ELSE SplitLoop(indices, k + 1, sp.right, indices[k], Append(lines, sp.left))

split_at_indices(s, indices) == SplitLoop(indices, 1, s, 0, <<>>)

---------------------------------------------------------------------------
(* Word wrapping (src/src/wrap.rs)                                         *)

\* The line breaking class (UAX #14) of the characters of the model.
LineBreakClass(g) ==
    CASE g = "a" -> "AL"
      [] g = " " -> "SP"
      [] g = "\n" -> "LF"
      [] g = Tab -> "BA"
      [] g = "W" -> "ID"
      [] g = "!" -> "EX"

\* The break opportunity between a character of class x and a following
\* character y: mandatory after a line feed (LB5); none before a line feed,
\* a space or an exclamation mark (LB6, LB7, LB13); allowed after a space
\* (LB18); none before a tab (LB21) and between letters (LB28); allowed
\* otherwise (LB31).
BreakBetween(x, y) ==
    IF LineBreakClass(x) = "LF" THEN "Mandatory"
    ELSE IF LineBreakClass(y) \in {"LF", "SP", "EX"} THEN "No"
    ELSE IF LineBreakClass(x) = "SP" THEN "Allowed"
    ELSE IF LineBreakClass(y) = "BA" THEN "No"
    ELSE IF LineBreakClass(x) = "AL" /\ LineBreakClass(y) = "AL" THEN "No"
    ELSE "Allowed"

\* unicode_linebreak::linebreaks: the break opportunities of the text in
\* ascending order, the last one mandatory at the end of the text.
RECURSIVE LineBreaksFrom(_, _, _)
LineBreaksFrom(gs, gis, k) ==
    IF k > Len(gs) THEN <<>>
    ELSE (IF BreakBetween(gs[k - 1], gs[k]) = "No" THEN <<>>
          ELSE <<[bi |-> gis[k], b |-> BreakBetween(gs[k - 1], gs[k])]>>)
         \o LineBreaksFrom(gs, gis, k + 1)

linebreaks(bytes) ==
    IF bytes = <<>> THEN <<>>
    ELSE LineBreaksFrom(Graphemes(bytes), grapheme_indices(bytes), 2)
         \o <<[bi |-> Len(bytes), b |-> "Mandatory"]>>

\* char::is_whitespace for every character of the grapheme
IsWhitespace(g) == g \in {" ", "\n", Tab}

\* A peek that never moves past a break option.
PeekBreakStuck(opts, k, gi) == opts[k]

\* The break option the peek loop of wrap stops at: the first at or after gi.
RECURSIVE PeekBreak(_, _, _)
PeekBreak(opts, k, gi) ==
    IF opts[k].bi < gi THEN PeekBreak(opts, k + 1, gi) ELSE opts[k]

Some(v) == [some |-> v]

WrapStart(db) ==
    [breaks |-> <<>>, valid_break |-> None, valid_break_width |-> 0,
     current_width |-> 0, current_width_trimmed |-> 0, db |-> db]

\* One pass of the loop of wrap, for grapheme g at byte offset gi.
WrapStep(st, opts, width, gi, g) ==
    LET opt == PeekBreak(opts, 1, gi)
        s1 == IF opt.bi = gi /\ opt.b = "Mandatory"
              THEN [st EXCEPT !.breaks = Append(@, opt.bi), !.valid_break = None,
                              !.valid_break_width = 0, !.current_width = 0,
                              !.current_width_trimmed = 0]
              ELSE IF opt.bi = gi
              THEN [st EXCEPT !.valid_break = Some(opt.bi),
                              !.valid_break_width = st.current_width]
              ELSE st
        g_is_whitespace == IsWhitespace(g)
        gw == IF g = Tab
              THEN [width |-> tab_width_at_column(s1.db, s1.current_width), db |-> s1.db]
              ELSE grapheme_width(s1.db, g, s1.current_width)
        g_width == gw.width
        g_width_trimmed == IF g_is_whitespace THEN 0 ELSE g_width
        new_width0 == s1.current_width + g_width
        new_width_trimmed0 == IF g_is_whitespace THEN s1.current_width_trimmed ELSE new_width0
        wrapHere == new_width_trimmed0 > width /\ s1.valid_break # None
        s2 == IF wrapHere
              THEN [s1 EXCEPT !.breaks = Append(@, s1.valid_break.some),
                              !.valid_break = None, !.valid_break_width = 0]
              ELSE s1
        new_width1 == IF wrapHere THEN new_width0 - s1.valid_break_width ELSE new_width0
        new_width_trimmed1 == IF wrapHere
                              THEN Max(new_width_trimmed0 - s1.valid_break_width, 0)
                              ELSE new_width_trimmed0
        forced == new_width_trimmed1 > width /\ new_width1 # g_width
        s3 == IF forced
              THEN [s2 EXCEPT !.breaks = Append(@, gi), !.valid_break = None,
                              !.valid_break_width = 0]
              ELSE s2
    IN [s3 EXCEPT !.current_width = IF forced THEN g_width ELSE new_width1,
                  !.current_width_trimmed = IF forced THEN g_width_trimmed ELSE new_width_trimmed1,
                  !.db = gw.db]

RECURSIVE WrapLoop(_, _, _, _, _, _)
WrapLoop(st, opts, width, gs, gis, k) ==
    IF k > Len(gs) THEN st
    ELSE WrapLoop(WrapStep(st, opts, width, gis[k], gs[k]), opts, width, gs, gis, k + 1)

\* wrap: the byte offsets of the breaks, and the width database after it.
wrap(db, bytes, width) ==
    WrapLoop(WrapStart(db), linebreaks(bytes), width, Graphemes(bytes), grapheme_indices(bytes), 1)

---------------------------------------------------------------------------
(* Segment balancing of the Join widgets (src/src/widgets/join.rs).        *)
(* Weights are whole numbers and the allotment weight / total * available  *)
(* is computed exactly; sizes are u16.                                     *)

U16Max == 65535

Segment(major, weight, growing, shrinking) ==
    [major |-> major, weight |-> weight, growing |-> growing, shrinking |-> shrinking]

saturating_add(a, b) == Min(a + b, U16Max)
saturating_sub(a, b) == Max(a - b, 0)

\* total_size: a saturating sum, from the left.
RECURSIVE total_size_from(_, _, _)
total_size_from(ss, k, total) ==
    IF k > Len(ss) THEN total ELSE total_size_from(ss, k + 1, saturating_add(total, ss[k].major))

total_size(ss) == total_size_from(ss, 1, 0)

\* The sum of the sizes of the segments of ss at the places ix.
RECURSIVE SumMajor(_, _)
SumMajor(ss, ix) == IF ix = <<>> THEN 0 ELSE ss[Head(ix)].major + SumMajor(ss, Tail(ix))

\* total_weight of the segments of ss at the places ix
RECURSIVE total_weight(_, _)
total_weight(ss, ix) == IF ix = <<>> THEN 0 ELSE ss[Head(ix)].weight + total_weight(ss, Tail(ix))

\* Whether the first retain of shrink (shrinking) or of grow keeps s.
Eligible(s, shrinking) == IF shrinking THEN s.shrinking ELSE s.growing

\* A first retain that drops the segments that take no part without
\* taking their sizes off available.
RECURSIVE RetainEligibleKeeping(_, _, _, _, _)
RetainEligibleKeeping(ss, k, shrinking, ix, available) ==
    IF k > Len(ss) THEN [ix |-> ix, available |-> available]
    ELSE IF Eligible(ss[k], shrinking)
         THEN RetainEligibleKeeping(ss, k + 1, shrinking, Append(ix, k), available)
         ELSE RetainEligibleKeeping(ss, k + 1, shrinking, ix, available)

\* The first retain of grow and of shrink: the segments that take part (by
\* their place in ss), and what the others leave of available.
RECURSIVE RetainEligible(_, _, _, _, _)
RetainEligible(ss, k, shrinking, ix, available) ==
    IF k > Len(ss) THEN [ix |-> ix, available |-> available]
    ELSE IF Eligible(ss[k], shrinking)
         THEN RetainEligible(ss, k + 1, shrinking, Append(ix, k), available)
         ELSE RetainEligible(ss, k + 1, shrinking, ix, saturating_sub(available, ss[k].major))

\* Weights that are never reset.
KeepWeights(ss, ix) == ss

\* The weights after the reset that grow and shrink make when no segment
\* in play has a weight.
ResetWeights(ss, ix) ==
    IF total_weight(ss, ix) <= 0
    THEN [k \in DOMAIN ss |-> IF \E j \in DOMAIN ix : ix[j] = k
                              THEN [ss[k] EXCEPT !.weight = 1] ELSE ss[k]]
    ELSE ss

\* Whether the retain of the loop keeps s: s.major > allotment when
\* shrinking, s.major < allotment when growing, where allotment is
\* s.weight / total * available.
MayNeedChange(s, total, available, shrinking) ==
    IF shrinking THEN s.major * total > s.weight * available
    ELSE s.major * total < s.weight * available

\* The retain loop: drop the segments that need no change until a pass
\* drops no size.
RECURSIVE RetainLoop(_, _, _, _)
RetainLoop(ss, ix, available, shrinking) ==
    LET ws == ResetWeights(ss, ix)
        total == total_weight(ws, ix)
        keep == SelectSeq(ix, LAMBDA k : MayNeedChange(ws[k], total, available, shrinking))
        gone == SelectSeq(ix, LAMBDA k : ~MayNeedChange(ws[k], total, available, shrinking))
        removed == SumMajor(ws, gone)
        failed == IF shrinking /\ \E j \in DOMAIN gone : ws[gone[j]].major > available
                  THEN "assert major <= available"
                  ELSE IF removed > available THEN "available - removed"
                  ELSE "none"
    IN IF failed # "none" THEN [ss |-> ws, ix |-> keep, available |-> available, panic |-> failed]
       ELSE IF removed = 0
            THEN [ss |-> ws, ix |-> keep, available |-> available, panic |-> "none"]
            ELSE RetainLoop(ws, keep, available - removed, shrinking)

\* floor(weight / total * available)
Allotment(s, total, available) == (s.weight * available) \div total

\* A distribution that keeps the rounding remainder.
DistributeFloorOnly(ss, ix, available) ==
    LET total == total_weight(ss, ix)
    IN IF total <= 0 THEN [ss |-> ss, panic |-> "none"]
       ELSE [ss |-> [k \in DOMAIN ss |->
                       IF \E j \in DOMAIN ix : ix[j] = k
                       THEN [ss[k] EXCEPT !.major = Allotment(ss[k], total, available)]
                       ELSE ss[k]],
             panic |-> "none"]

\* The end of grow and of shrink: every segment left gets the floor of its
\* allotment, and the first `remaining` of them one more.
Distribute(ss, ix, available) ==
    LET total == total_weight(ss, ix)
        floors == [k \in DOMAIN ss |->
                     IF \E j \in DOMAIN ix : ix[j] = k
                     THEN [ss[k] EXCEPT !.major = Allotment(ss[k], total, available)]
                     ELSE ss[k]]
        used == SumMajor(floors, ix)
        remaining == available - used
    IN IF total <= 0 THEN [ss |-> ss, panic |-> "none"]
       ELSE IF remaining < 0 THEN [ss |-> floors, panic |-> "available - used"]
       ELSE IF remaining > Len(ix) THEN [ss |-> floors, panic |-> "assert remaining <= len"]
       ELSE [ss |-> [k \in DOMAIN ss |->
                       IF \E j \in 1..remaining : ix[j] = k
                       THEN [floors[k] EXCEPT !.major = @ + 1]
                       ELSE floors[k]],
             panic |-> "none"]

grow(ss, available) ==
    IF ~(available >= total_size(ss)) THEN [ss |-> ss, panic |-> "assert available >= total"]
    ELSE LET el == RetainEligible(ss, 1, FALSE, <<>>, available)
             lp == RetainLoop(ss, el.ix, el.available, FALSE)
         IN IF lp.panic # "none" THEN [ss |-> lp.ss, panic |-> lp.panic]
            ELSE Distribute(lp.ss, lp.ix, lp.available)

shrink(ss, available) ==
    IF ~(available <= total_size(ss)) THEN [ss |-> ss, panic |-> "assert available <= total"]
    ELSE LET el == RetainEligible(ss, 1, TRUE, <<>>, available)
             lp == RetainLoop(ss, el.ix, el.available, TRUE)
         IN IF lp.panic # "none" THEN [ss |-> lp.ss, panic |-> lp.panic]
            ELSE Distribute(lp.ss, lp.ix, lp.available)

balance(ss, available) ==
    IF total_size(ss) < available THEN grow(ss, available)
    ELSE IF total_size(ss) > available THEN shrink(ss, available)
    ELSE [ss |-> ss, panic |-> "none"]

---------------------------------------------------------------------------
(* The buffer as a state machine: the operations a widget can call.        *)

Red == [fg |-> 1, bg |-> 0]
OnBlue == [fg |-> 0, bg |-> 1]

\* What is written: a narrow grapheme, and a wide one followed by a narrow
\* one in either style.
WriteChoices ==
    {[text |-> <<"a">>, style |-> Red],
     [text |-> <<"W", "a">>, style |-> OnBlue],
     [text |-> <<"W", "a">>, style |-> Red]}
WriteXs == -1..3
WriteYs == 0..1
\* The frames pushed: one that clips columns on both sides, one that starts
\* left of its parent and one row down.
PushFrames == {[pos |-> Pos(1, 0), size |-> Size(2, 2)],
               [pos |-> Pos(-1, 1), size |-> Size(3, 1)]}

NoOp == [kind |-> "none"]

BufIdle ==
    /\ buf = EmptyBuffer
    /\ bpre = <<>>
    /\ btouched = {}
    /\ bop = NoOp
    /\ nwrites = 0

NoResult == [kind |-> "none"]

TermIdle ==
    /\ term = NewTerminal
    /\ screen = JunkScreen(Size(0, 0))
    /\ tout = <<>>
    /\ tres = NoResult
    /\ thist = [ev |-> TRUE, first |-> TRUE, failed |-> FALSE]
    /\ tdraws = 0

WrapIdle ==
    /\ win = [text |-> <<>>, width |-> 0, tab_width |-> 8]
    /\ wout = NoResult

BalIdle ==
    /\ segs = <<>>
    /\ bal = NoResult

StyledIdle ==
    /\ sty = StyledDefault
    /\ sres = NoResult

WidthIdle ==
    /\ wdb = DefaultWidthDb
    /\ wlast = NoOp

BufInit == BufIdle /\ TermIdle /\ WrapIdle /\ BalIdle /\ StyledIdle /\ WidthIdle

BufResize ==
    /\ buf' = Resize(buf, Size(BufW, BufH))
    /\ bpre' = buf'.data
    /\ btouched' = {}
    /\ bop' = [kind |-> "resize"]
    /\ nwrites' = 0
    /\ UNCHANGED notBuf

BufPush ==
    \E f \in PushFrames :
        /\ Len(buf.stack) < MaxDepth
        /\ buf.size.width > 0
        /\ buf' = Push(buf, f.pos, f.size)
        /\ bpre' = buf.data
        /\ btouched' = {}
        /\ bop' = [kind |-> "push"]
        /\ UNCHANGED nwrites
        /\ UNCHANGED notBuf

BufPop ==
    /\ Len(buf.stack) > 0
    /\ buf' = Pop(buf)
    /\ bpre' = buf.data
    /\ btouched' = {}
    /\ bop' = [kind |-> "pop"]
    /\ UNCHANGED nwrites
    /\ UNCHANGED notBuf

BufWrite ==
    \E x \in WriteXs, y \in WriteYs, c \in WriteChoices :
        LET res == Write(buf, DefaultWidthDb, Pos(x, y), c.text, c.style)
        IN /\ nwrites < MaxWrites
           /\ buf.size.width > 0
           /\ buf' = [buf EXCEPT !.data = res.data, !.cursor = res.cursor]
           /\ bpre' = buf.data
           /\ btouched' = res.touched
           /\ bop' = [kind |-> "write", style |-> c.style]
           /\ nwrites' = nwrites + 1
           /\ UNCHANGED notBuf

BufNext == BufResize \/ BufPush \/ BufPop \/ BufWrite

SpecBuf == BufInit /\ [][BufNext]_vars

---------------------------------------------------------------------------
(* The clip stack as a state machine: frames of any position and size,     *)
(* buffers without cells, the cursor.                                      *)

\* Sizes a buffer is resized to: with cells, without columns, without rows.
ClipSizes == {Size(3, 2), Size(0, 1), Size(2, 0)}

\* The frames pushed: the two of PushFrames, one beyond the right edge and
\* one without columns.
ClipFrames ==
    PushFrames \cup {[pos |-> Pos(5, 0), size |-> Size(2, 1)],
                     [pos |-> Pos(0, 0), size |-> Size(0, 2)]}

ClipCursors == {None, Pos(-1, 1)}
ClipWriteXs == {-1, 2}
ClipTexts == {<<"W">>}

ClipStart ==
    [kind |-> "none", panic |-> FALSE, pre |-> EmptyBuffer, used |-> FALSE,
     pos |-> Pos(0, 0), size |-> Size(0, 0), snaps |-> <<>>,
     top |-> current_frame(EmptyBuffer)]

\* The buffer has a cell that is not blank, a frame and a cursor.
Used(b) ==
    /\ \E i \in DOMAIN b.data : b.data[i] # Blank
    /\ b.stack # <<>>
    /\ b.cursor # None

\* The history after a call: the call's arguments and, where the call is to
\* keep something, the buffer before it.
Called(kind, pos, size) ==
    [bop EXCEPT !.kind = kind, !.pos = pos, !.size = size, !.used = Used(buf),
                !.top = current_frame(EmptyBuffer),
                !.pre = IF kind \in {"push", "pop", "write"} THEN buf
                        ELSE [EmptyBuffer EXCEPT !.size = buf.size]]

ClipInit ==
    /\ buf = EmptyBuffer
    /\ bpre = <<>>
    /\ btouched = {}
    /\ bop = ClipStart
    /\ nwrites = 0
    /\ TermIdle /\ WrapIdle /\ BalIdle /\ StyledIdle /\ WidthIdle

CResize ==
    /\ ~bop.panic
    /\ \E size \in ClipSizes :
          /\ buf' = Resize(buf, size)
          /\ bop' = [Called("resize", Pos(0, 0), size) EXCEPT !.snaps = <<>>]
    /\ bpre' = buf.data
    /\ btouched' = {}
    /\ nwrites' = 0
    /\ UNCHANGED notBuf

CReset ==
    /\ ~bop.panic
    /\ buf' = Reset(buf)
    /\ bop' = [Called("reset", Pos(0, 0), buf.size) EXCEPT !.snaps = <<>>]
    /\ bpre' = buf.data
    /\ btouched' = {}
    /\ nwrites' = 0
    /\ UNCHANGED notBuf

\* snaps keeps the frame that was current before each push.
CPush ==
    /\ ~bop.panic
    /\ Len(buf.stack) < MaxDepth
    /\ \E f \in ClipFrames :
          /\ buf' = Push(buf, f.pos, f.size)
          /\ bop' = [Called("push", f.pos, f.size) EXCEPT
                        !.snaps = Append(@, current_frame(buf))]
    /\ bpre' = buf.data
    /\ btouched' = {}
    /\ UNCHANGED nwrites
    /\ UNCHANGED notBuf

CPop ==
    /\ ~bop.panic
    /\ buf' = Pop(buf)
    /\ bop' = [Called("pop", Pos(0, 0), Size(0, 0)) EXCEPT
                  !.snaps = IF Len(@) = 0 THEN @ ELSE SubSeq(@, 1, Len(@) - 1),
                  !.top = IF Len(bop.snaps) = 0 THEN @ ELSE bop.snaps[Len(bop.snaps)]]
    /\ bpre' = buf.data
    /\ btouched' = {}
    /\ UNCHANGED nwrites
    /\ UNCHANGED notBuf

CSetCursor ==
    /\ ~bop.panic
    /\ \E p \in ClipCursors :
          /\ buf' = set_cursor(buf, p)
          /\ bop' = Called("set_cursor", IF p = None THEN Pos(0, 0) ELSE p, Size(0, 0))
    /\ bpre' = buf.data
    /\ btouched' = {}
    /\ UNCHANGED nwrites
    /\ UNCHANGED notBuf

\* Buffer::write; a failed assertion ends the program.
CWrite ==
    /\ ~bop.panic
    /\ nwrites < ClipWrites
    /\ \E x \in ClipWriteXs, y \in WriteYs, text \in ClipTexts :
          LET res == Write(buf, DefaultWidthDb, Pos(x, y), text, Red)
          IN /\ buf' = [buf EXCEPT !.data = res.data, !.cursor = res.cursor]
             /\ btouched' = res.touched
             /\ bop' = [Called("write", Pos(x, y), Size(0, 0)) EXCEPT !.panic = res.panic]
    /\ bpre' = buf.data
    /\ nwrites' = nwrites + 1
    /\ UNCHANGED notBuf

ClipNext == CResize \/ CReset \/ CPush \/ CPop \/ CSetCursor \/ CWrite

SpecClip == ClipInit /\ [][ClipNext]_vars

---------------------------------------------------------------------------
(* The terminal as a state machine: the calls of an application's draw     *)
(* loop, and the terminal they reach.                                      *)

TermSizes == {Size(3, 1), Size(2, 1)}
DrawXs == -1..2
DrawTexts == {<<"W">>}

\* The column a terminal that renders the glyphs as estimated reports.
TrueCols == [g \in {"a", "W", " "} |-> GlyphWidth(g)]

\* A redraw-forcing event happened.
Event(h) == [h EXCEPT !.ev = TRUE, !.first = TRUE]

\* The application calls autoresize and crossterm reports the size s.
Autoresized(s) ==
    /\ term' = Autoresize(term, s)
    /\ thist' = IF s # FrameSize(term.frame) THEN Event(thist) ELSE thist
    /\ tdraws' = IF s # FrameSize(term.frame) THEN 0 ELSE tdraws
    /\ tout' = <<>>
    /\ tres' = NoResult
    /\ UNCHANGED notTerm

MarkedDirty ==
    /\ term' = mark_dirty(term)
    /\ thist' = Event(thist)
    /\ tout' = <<>>
    /\ tres' = NoResult
    /\ UNCHANGED <<tdraws, notTerm>>

\* suspend, an external program on the normal screen, unsuspend.
Unsuspended ==
    /\ term' = unsuspend(term)
    /\ thist' = Event(thist)
    /\ tout' = <<>>
    /\ tres' = NoResult
    /\ UNCHANGED <<tdraws, notTerm>>

TSetMeasuring ==
    \E active \in BOOLEAN :
        /\ term' = set_measuring(term, active)
        /\ tout' = <<>>
        /\ tres' = NoResult
        /\ UNCHANGED <<screen, thist, tdraws, notTerm>>

\* measure_widths found graphemes to measure.
Measured ==
    /\ measuring_required(term.frame.widthdb)
    /\ term' = TerminalMeasureWidths(term, TrueCols)
    /\ thist' = Event(thist)
    /\ tout' = <<>>
    /\ tres' = NoResult
    /\ UNCHANGED <<tdraws, notTerm>>

TWrite ==
    \E x \in DrawXs, t \in DrawTexts :
        /\ tdraws < MaxDraws
        /\ term.frame.buffer.size.width > 0
        /\ term' = [term EXCEPT !.frame = FrameWrite(@, Pos(x, 0), t, Red)]
        /\ tdraws' = tdraws + 1
        /\ tout' = <<>>
        /\ tres' = NoResult
        /\ UNCHANGED <<screen, thist, notTerm>>

\* The application gives up a frame it has drawn into.
TFrameReset ==
    /\ tdraws > 0
    /\ term' = [term EXCEPT !.frame = FrameReset(@)]
    /\ tdraws' = 0
    /\ tout' = <<>>
    /\ tres' = NoResult
    /\ UNCHANGED <<screen, thist, notTerm>>

\* What a present started from.
Started(kind) ==
    [kind |-> kind, first |-> thist.first, ev |-> thist.ev, afterfail |-> thist.failed,
     prev |-> term.prev_frame_buffer.data, redraw |-> term.full_redraw]

PresentedOk ==
    /\ term' = PresentOk(term)
    /\ tout' = PresentQueue(term)
    /\ tres' = Started("ok")
    /\ thist' = [ev |-> FALSE, first |-> FALSE, failed |-> FALSE]
    /\ tdraws' = 0
    /\ UNCHANGED notTerm

\* Queue call k of the present fails (k = Len + 1: the flush).
PresentedErr(k) ==
    /\ term' = PresentErr(term, k)
    /\ tout' = SubSeq(PresentQueue(term), 1, k - 1)
    /\ tres' = Started("err")
    /\ thist' = [thist EXCEPT !.first = FALSE, !.failed = TRUE]
    /\ UNCHANGED <<tdraws, notTerm>>

(* SpecTerm: the presenter and the commands it queues; the screen is not   *)
(* looked at.                                                              *)

TermInit ==
    /\ BufIdle /\ WrapIdle /\ BalIdle /\ StyledIdle /\ WidthIdle
    /\ term = NewTerminal
    /\ screen = JunkScreen(Size(0, 0))
    /\ tout = <<>>
    /\ tres = NoResult
    /\ thist = [ev |-> TRUE, first |-> TRUE, failed |-> FALSE]
    /\ tdraws = 0

TAutoresize == \E s \in TermSizes : Autoresized(s) /\ UNCHANGED screen

TMarkDirty == MarkedDirty /\ UNCHANGED screen

TUnsuspend == Unsuspended /\ UNCHANGED screen

TMeasureWidths == Measured /\ UNCHANGED screen

TPresentOk == PresentedOk /\ UNCHANGED screen

TPresentErr == \E k \in 1..(Len(PresentQueue(term)) + 1) : PresentedErr(k) /\ UNCHANGED screen

TermNext ==
    \/ TAutoresize \/ TMarkDirty \/ TUnsuspend \/ TSetMeasuring \/ TMeasureWidths
    \/ TWrite \/ TFrameReset \/ TPresentOk \/ TPresentErr

SpecTerm == TermInit /\ [][TermNext]_vars

(* SpecScreen: the same calls, with the terminal that receives the         *)
(* commands.                                                               *)

ScreenInit ==
    /\ BufIdle /\ WrapIdle /\ BalIdle /\ StyledIdle /\ WidthIdle
    /\ term = NewTerminal
    /\ screen \in {JunkScreen(s) : s \in TermSizes}
    /\ tout = <<>>
    /\ tres = NoResult
    /\ thist = [ev |-> TRUE, first |-> TRUE, failed |-> FALSE]
    /\ tdraws = 0

\* The terminal has size s: the user may have resized it, which leaves
\* unknown content on it.
SAutoresize ==
    \E s \in TermSizes :
        /\ Autoresized(s)
        /\ screen' = IF s # screen.size THEN JunkScreen(s) ELSE screen

SMarkDirty == MarkedDirty /\ UNCHANGED screen

\* The alternate screen is entered anew.
SUnsuspend == Unsuspended /\ screen' = JunkScreen(screen.size)

SPresentOk == PresentedOk /\ screen' = Deliver(screen, PresentQueue(term), 1, Pos(0, 0))

\* The sink had passed on to the terminal either nothing or all it was
\* given before the failing call.
SPresentErr ==
    \E k \in 1..(Len(PresentQueue(term)) + 1) : \E d \in {0, k - 1} :
        /\ PresentedErr(k)
        /\ screen' = Deliver(screen, SubSeq(PresentQueue(term), 1, d), 1, Pos(0, 0))

ScreenNext ==
    \/ SAutoresize \/ SMarkDirty \/ SUnsuspend
    \/ TWrite \/ TFrameReset \/ SPresentOk \/ SPresentErr

SpecScreen == ScreenInit /\ [][ScreenNext]_vars


---------------------------------------------------------------------------
(* The wrapper as a state machine: a text is wrapped, then split at the    *)
(* offsets.                                                                *)

WrapWidths == 0..3
TabWidths == {2, 3}
Texts == {Encode(gs) : gs \in UNION {[1..n -> Alphabet] : n \in 0..MaxLen}}

WrapInit ==
    /\ BufIdle /\ TermIdle /\ BalIdle /\ StyledIdle /\ WidthIdle
    /\ win \in [text : Texts, width : WrapWidths, tab_width : TabWidths]
    /\ wout = NoResult

\* The width database the text is measured with: Terminal::set_tab_width
\* on the default.
WrapDb == [DefaultWidthDb EXCEPT !.tab_width = win.tab_width]

WWrap ==
    /\ wout.kind = "none"
    /\ wout' = [kind |-> "wrap", breaks |-> wrap(WrapDb, win.text, win.width).breaks]
    /\ UNCHANGED <<win, notWrap>>

WSplit ==
    /\ wout.kind = "wrap"
    /\ LET sp == split_at_indices(StyledOf(win.text, DefaultStyle), wout.breaks)
       IN wout' = [kind |-> "split", breaks |-> wout.breaks, panic |-> sp.panic,
                   lines |-> [k \in DOMAIN sp.lines |-> sp.lines[k].text]]
    /\ UNCHANGED <<win, notWrap>>

WrapNext == WWrap \/ WSplit

SpecWrap == WrapInit /\ [][WrapNext]_vars

---------------------------------------------------------------------------
(* The balancer as a state machine: a list of segments is balanced.        *)

BalSizes == {0, 1, 3, U16Max}
BalWeights == {0, 1, 2}
BalAvailable == (0..5) \cup {U16Max}
SegChoices ==
    {Segment(m, w, g, sh) : m \in BalSizes, w \in BalWeights, g \in BOOLEAN, sh \in BOOLEAN}
SegLists == UNION {[1..n -> SegChoices] : n \in 0..MaxSegs}

BalInit ==
    /\ BufIdle /\ TermIdle /\ WrapIdle /\ StyledIdle /\ WidthIdle
    /\ segs \in SegLists
    /\ bal = NoResult

Balance ==
    \E available \in BalAvailable :
        /\ bal.kind = "none"
        /\ LET r == balance(segs, available)
           IN bal' = [kind |-> "balanced", available |-> available,
                      sizes |-> [k \in DOMAIN r.ss |-> r.ss[k].major], panic |-> r.panic]
        /\ UNCHANGED <<segs, notBal>>

BalNext == Balance

SpecBal == BalInit /\ [][BalNext]_vars

---------------------------------------------------------------------------
(* Styled text as a state machine: a text is put together from styled      *)
(* pieces, then split at a character boundary.                             *)

StyledPieces == {<<>>, Encode(<<"a">>), Encode(<<"W">>), Encode(<<"a", "!">>)}
StyledStyles == {Red, OnBlue}

\* What and_then can be handed: texts of one or two pieces.
StyledOthers ==
    {then(StyledOf(p, a), q, b) :
        p \in {Encode(<<"a">>)}, q \in {<<>>, Encode(<<"W">>)}, a \in StyledStyles, b \in StyledStyles}

StyledInit ==
    /\ sty = StyledDefault
    /\ sres = NoResult
    /\ BufIdle /\ TermIdle /\ WrapIdle /\ BalIdle /\ WidthIdle

SNew ==
    /\ \E p \in StyledPieces, a \in StyledStyles : sty' = StyledOf(p, a)
    /\ sres' = NoResult
    /\ UNCHANGED notStyled

SThen ==
    /\ sres = NoResult
    /\ Len(sty.styles) < MaxRuns
    /\ \E p \in StyledPieces, a \in StyledStyles : sty' = then(sty, p, a)
    /\ UNCHANGED <<sres, notStyled>>

SAndThen ==
    /\ sres = NoResult
    /\ \E other \in StyledOthers :
          /\ Len(sty.styles) + Len(other.styles) <= MaxRuns
          /\ sty' = and_then(sty, other)
    /\ UNCHANGED <<sres, notStyled>>

SSplit ==
    /\ sres = NoResult
    /\ \E mid \in 0..Len(sty.text) :
          LET sp == split_at(sty, mid)
          IN /\ ~sp.panic
             /\ sres' = [kind |-> "split", mid |-> mid, left |-> sp.left, right |-> sp.right]
    /\ UNCHANGED <<sty, notStyled>>

StyledNext == SNew \/ SThen \/ SAndThen \/ SSplit

SpecStyled == StyledInit /\ [][StyledNext]_vars

---------------------------------------------------------------------------
(* The width database as a state machine: the calls that reach the         *)
(* WidthDb of a terminal's frame.                                          *)

WidthGraphemes == {"a", "Z", "\n"}
WidthCols == {0, 3, 300}                \* the column a grapheme starts at
TabWidthsU8 == {0, 3, 255}              \* arguments of set_tab_width
ReportedCols == {0, 2, 65535}           \* cursor columns the terminal reports

\* A terminal whose frame holds the database.
WidthTerminal(db) == [NewTerminal EXCEPT !.frame.widthdb = db]

\* The graphemes measure_widths prints.
Printed(requested) == {g \in requested : ~IsAsciiControl(g)}

\* History: every width as it was first recorded.
FirstRecorded(first, known) ==
    [g \in (DOMAIN first) \cup (DOMAIN known) |->
        IF g \in DOMAIN first THEN first[g] ELSE known[g]]

WidthStart ==
    [kind |-> "none", g |-> "", col |-> 0, width |-> 0, panic |-> FALSE,
     pre |-> DefaultWidthDb, ret |-> "", io |-> 0,
     quiet |-> FALSE, quietOn |-> FALSE, first |-> <<>>]

\* The history after a call that only changes a setting.
Setting(kind) ==
    [WidthStart EXCEPT !.kind = kind, !.quiet = wlast.quiet,
                       !.quietOn = wlast.quietOn, !.first = wlast.first]

WidthInit ==
    /\ wdb = DefaultWidthDb
    /\ wlast = WidthStart
    /\ BufIdle /\ TermIdle /\ WrapIdle /\ BalIdle /\ StyledIdle

\* WidthDb::grapheme_width; a panic ends the program.
WGraphemeWidth ==
    /\ ~wlast.panic
    /\ \E g \in WidthGraphemes \cup {Tab}, col \in WidthCols :
          LET r == grapheme_width(wdb, g, col)
              unknown == g # Tab /\ g \notin DOMAIN wdb.known
          IN /\ wdb' = r.db
             /\ wlast' = [wlast EXCEPT !.kind = "grapheme_width", !.g = g, !.col = col,
                                       !.width = r.width, !.panic = r.panic,
                                       !.pre = wdb, !.ret = "", !.io = 0,
                                       !.quiet = @ /\ ~unknown,
                                       !.quietOn = @ /\ ~unknown]
    /\ UNCHANGED notWidth

WSetMeasuring ==
    /\ ~wlast.panic
    /\ \E active \in BOOLEAN :
          wdb' = set_measuring(WidthTerminal(wdb), active).frame.widthdb
    /\ wlast' = Setting("set_measuring")
    /\ UNCHANGED notWidth

WSetTabWidth ==
    /\ ~wlast.panic
    /\ \E tab_width \in TabWidthsU8 :
          wdb' = set_tab_width(WidthTerminal(wdb), tab_width).frame.widthdb
    /\ wlast' = Setting("set_tab_width")
    /\ UNCHANGED notWidth

\* An assignment to the estimate field.
WSetEstimate ==
    /\ ~wlast.panic
    /\ \E method \in {"Legacy", "Unicode"} : wdb' = [wdb EXCEPT !.estimate = method]
    /\ wlast' = Setting("set_estimate")
    /\ UNCHANGED notWidth

\* Terminal::measure_widths returning Ok.
WMeasureOk ==
    /\ ~wlast.panic
    /\ \E cols \in [Printed(wdb.requested) -> ReportedCols] :
          LET t == TerminalMeasureWidths(WidthTerminal(wdb), cols)
              required == measuring_required(wdb)
          IN /\ wdb' = t.frame.widthdb
             /\ wlast' = [wlast EXCEPT !.kind = "measure_widths", !.pre = wdb,
                                       !.ret = IF required THEN "Ok(true)" ELSE "Ok(false)",
                                       !.io = IF required THEN Cardinality(Printed(wdb.requested)) ELSE 0,
                                       !.quiet = TRUE,
                                       !.quietOn = wdb.measure,
                                       !.first = FirstRecorded(@, t.frame.widthdb.known)]
    /\ UNCHANGED notWidth

\* Terminal::measure_widths returning the error of a write or of the
\* position query for the grapheme failed, after those in done were recorded.
WMeasureErr ==
    /\ ~wlast.panic
    /\ measuring_required(wdb)
    /\ \E failed \in Printed(wdb.requested) :
        \E done \in SUBSET (wdb.requested \ {failed}) :
        \E cols \in [Printed(done) -> ReportedCols] :
          LET t == TerminalMeasureWidthsFailing(WidthTerminal(wdb), cols, done)
          IN /\ wdb' = t.frame.widthdb
             /\ wlast' = [wlast EXCEPT !.kind = "measure_widths", !.pre = wdb,
                                       !.ret = "Err",
                                       !.io = Cardinality(Printed(done)) + 1,
                                       !.first = FirstRecorded(@, t.frame.widthdb.known)]
    /\ UNCHANGED notWidth

WidthNext ==
    \/ WGraphemeWidth
    \/ WSetMeasuring
    \/ WSetTabWidth
    \/ WSetEstimate
    \/ WMeasureOk
    \/ WMeasureErr

SpecWidth == WidthInit /\ [][WidthNext]_vars

---------------------------------------------------------------------------
(* A buffer under resize, reset, push, pop, set_cursor and write, with     *)
(* tabs, zero-width, wide and measured graphemes                           *)

GridWrites == 2      \* writes between two resizes of the grid
GridDepth == 1       \* clip frames on the grid's stack

GridSizes == {Size(3, 2), Size(0, 1)}
\* A frame that clips one column on the left.
GridFrames == {[pos |-> Pos(1, 0), size |-> Size(2, 2)]}
GridCursors == {None, Pos(1, 0), Pos(3, 0)}
\* Where a write starts: left of the frame, so that a wide grapheme
\* crosses the right edge, and at the first column of the second row.
GridPlaces == {Pos(-1, 0), Pos(2, 0), Pos(0, 1)}
\* The estimating database with tabs of 2 columns, and a measuring one
\* with tabs of 3 columns that has measured "a" as 3 columns wide.
EstimatingDb == [DefaultWidthDb EXCEPT !.tab_width = 2]
MeasuringDb ==
    [DefaultWidthDb EXCEPT !.tab_width = 3, !.measure = TRUE,
                           !.known = [g \in {"a"} |-> 3]]
\* What is written: a three-column grapheme, a wide one, a tab before and
\* after a narrow one, and a zero-width grapheme before a wide and a
\* narrow one.
GridChoices ==
    {[text |-> <<"a">>, db |-> MeasuringDb, style |-> Red],
     [text |-> <<"W">>, db |-> EstimatingDb, style |-> OnBlue],
     [text |-> <<Tab, "a">>, db |-> EstimatingDb, style |-> Red],
     [text |-> <<"a", Tab>>, db |-> EstimatingDb, style |-> OnBlue],
     [text |-> <<"\n", "W", "a">>, db |-> EstimatingDb, style |-> Red]}

GridStart ==
    [kind |-> "none", panic |-> FALSE, pre |-> EmptyBuffer, pos |-> Pos(0, 0),
     text |-> <<>>, style |-> DefaultStyle, db |-> DefaultWidthDb]

\* The history after a call that is not a write.
GridCalled(kind) == [GridStart EXCEPT !.kind = kind]

GridInit ==
    /\ buf = EmptyBuffer
    /\ bpre = <<>>
    /\ btouched = {}
    /\ bop = GridStart
    /\ nwrites = 0
    /\ TermIdle /\ WrapIdle /\ BalIdle /\ StyledIdle /\ WidthIdle

GResize ==
    /\ ~bop.panic
    /\ \E s \in GridSizes : buf' = Resize(buf, s)
    /\ bpre' = <<>>
    /\ btouched' = {}
    /\ bop' = GridCalled("resize")
    /\ nwrites' = 0
    /\ UNCHANGED notBuf

GReset ==
    /\ ~bop.panic
    /\ buf' = Reset(buf)
    /\ bpre' = <<>>
    /\ btouched' = {}
    /\ bop' = GridCalled("reset")
    /\ nwrites' = 0
    /\ UNCHANGED notBuf

GPush ==
    /\ ~bop.panic
    /\ Len(buf.stack) < GridDepth
    /\ \E f \in GridFrames : buf' = Push(buf, f.pos, f.size)
    /\ bpre' = <<>>
    /\ btouched' = {}
    /\ bop' = GridCalled("push")
    /\ UNCHANGED nwrites
    /\ UNCHANGED notBuf

GPop ==
    /\ ~bop.panic
    /\ Len(buf.stack) > 0
    /\ buf' = Pop(buf)
    /\ bpre' = <<>>
    /\ btouched' = {}
    /\ bop' = GridCalled("pop")
    /\ UNCHANGED nwrites
    /\ UNCHANGED notBuf

GSetCursor ==
    /\ ~bop.panic
    /\ \E p \in GridCursors : buf' = set_cursor(buf, p)
    /\ bpre' = <<>>
    /\ btouched' = {}
    /\ bop' = GridCalled("set_cursor")
    /\ UNCHANGED nwrites
    /\ UNCHANGED notBuf

\* Buffer::write; a failed assertion ends the program.
GWrite ==
    /\ ~bop.panic
    /\ nwrites < GridWrites
    /\ \E pos \in GridPlaces, c \in GridChoices :
          LET res == Write(buf, c.db, pos, c.text, c.style)
          IN /\ buf' = [buf EXCEPT !.data = res.data, !.cursor = res.cursor]
             /\ btouched' = res.touched
             /\ bop' = [kind |-> "write", panic |-> res.panic, pre |-> buf,
                        pos |-> pos, text |-> c.text, style |-> c.style,
                        db |-> c.db]
    /\ bpre' = buf.data
    /\ nwrites' = nwrites + 1
    /\ UNCHANGED notBuf

GridNext == GResize \/ GReset \/ GPush \/ GPop \/ GSetCursor \/ GWrite

SpecGrid == GridInit /\ [][GridNext]_vars

---------------------------------------------------------------------------
(* SpecPresent: frames with clip frames, a cursor and a title are drawn    *)
(* and presented without I/O errors; the commands a present queues.        *)

PresentDraws == 1    \* writes into one frame before it is presented
PresentDepth == 1    \* clip frames left on the frame's stack
PaintDraws == 1      \* writes into one frame before it is painted

PresentSizes == {Size(2, 2), Size(3, 1)}
\* What is drawn and where: a narrow grapheme in either row, and a wide
\* one.
PresentWrites ==
    {[pos |-> Pos(0, 0), text |-> <<"a">>, style |-> Red],
     [pos |-> Pos(1, 1), text |-> <<"a">>, style |-> Red],
     [pos |-> Pos(0, 0), text |-> <<"W">>, style |-> Red]}
PresentFrames == {[pos |-> Pos(1, 0), size |-> Size(1, 1)]}
PresentCursors == {None, Pos(0, 0), Pos(2, 1)}
PresentTitles == {None, Some("t")}

\* Frame::push, Frame::pop, Frame::set_cursor, Frame::set_title
FramePush(f, pos, size) == [f EXCEPT !.buffer = Push(@, pos, size)]
FramePop(f) == [f EXCEPT !.buffer = Pop(@)]
FrameSetCursor(f, p) ==
    [f EXCEPT !.cursor = IF p = None THEN None
                         ELSE local_to_global(current_frame(f.buffer), p)]
FrameSetTitle(f, title) == [f EXCEPT !.title = title]

\* Print of a grapheme of w columns at (x, y) of the grid.
GridPrint(sc, x, y, w, content, style) ==
    LET first == y * sc.size.width + x + 1
    IN [sc EXCEPT !.cells =
          [i \in DOMAIN sc.cells |->
             IF i \in first..(first + w - 1)
             THEN [content |-> content, style |-> style, offset |-> i - first]
             ELSE sc.cells[i]]]

\* The grid after the commands cmds[k..]: Clear blanks every cell, MoveTo
\* sets the target pos, Print puts the grapheme there with the width its
\* head cell has in buffer b.
RECURSIVE Paint(_, _, _, _, _)
Paint(sc, cmds, k, pos, b) ==
    IF k > Len(cmds) THEN sc
    ELSE LET c == cmds[k]
         IN IF c.op = "Clear"
            THEN Paint([sc EXCEPT !.cells = [i \in DOMAIN sc.cells |-> ScreenBlank]],
                       cmds, k + 1, pos, b)
            ELSE IF c.op = "MoveTo" THEN Paint(sc, cmds, k + 1, Pos(c.x, c.y), b)
            ELSE IF c.op = "Print"
                 THEN Paint(GridPrint(sc, pos.x, pos.y, At(b, pos.x, pos.y).width,
                                      c.content, c.style),
                            cmds, k + 1, pos, b)
            ELSE Paint(sc, cmds, k + 1, pos, b)

\* A call that queues nothing and leaves the screen alone.
Quiet == tout' = <<>> /\ tres' = NoResult /\ UNCHANGED <<screen, thist, notTerm>>

\* What a present started from.
Presenting == [kind |-> "ok", buffer |-> term.frame.buffer, cursor |-> term.frame.cursor]

PresentInit ==
    /\ BufIdle /\ WrapIdle /\ BalIdle /\ StyledIdle /\ WidthIdle
    /\ term = NewTerminal
    /\ screen = JunkScreen(Size(0, 0))
    /\ tout = <<>>
    /\ tres = NoResult
    /\ thist = [ev |-> TRUE, first |-> TRUE, failed |-> FALSE]
    /\ tdraws = 0

PAutoresize ==
    \E s \in PresentSizes :
        /\ term' = Autoresize(term, s)
        /\ tdraws' = IF s # FrameSize(term.frame) THEN 0 ELSE tdraws
        /\ Quiet

PMarkDirty ==
    /\ term' = mark_dirty(term)
    /\ UNCHANGED tdraws
    /\ Quiet

PWrite ==
    \E w \in PresentWrites :
        /\ tdraws < PresentDraws
        /\ term.frame.buffer.size.width > 0
        /\ term' = [term EXCEPT !.frame = FrameWrite(@, w.pos, w.text, w.style)]
        /\ tdraws' = tdraws + 1
        /\ Quiet

PPush ==
    \E f \in PresentFrames :
        /\ Len(term.frame.buffer.stack) < PresentDepth
        /\ term.frame.buffer.size.width > 0
        /\ term' = [term EXCEPT !.frame = FramePush(@, f.pos, f.size)]
        /\ UNCHANGED tdraws
        /\ Quiet

PPop ==
    /\ Len(term.frame.buffer.stack) > 0
    /\ term' = [term EXCEPT !.frame = FramePop(@)]
    /\ UNCHANGED tdraws
    /\ Quiet

PSetCursor ==
    \E p \in PresentCursors :
        /\ term' = [term EXCEPT !.frame = FrameSetCursor(@, p)]
        /\ UNCHANGED tdraws
        /\ Quiet

PSetTitle ==
    \E title \in PresentTitles :
        /\ term' = [term EXCEPT !.frame = FrameSetTitle(@, title)]
        /\ UNCHANGED tdraws
        /\ Quiet

PPresent ==
    /\ term' = PresentOk(term)
    /\ tout' = PresentQueue(term)
    /\ tres' = Presenting
    /\ tdraws' = 0
    /\ UNCHANGED <<screen, thist, notTerm>>

PresentNext ==
    \/ PAutoresize \/ PMarkDirty \/ PWrite \/ PPush \/ PPop \/ PSetCursor
    \/ PSetTitle \/ PPresent

SpecPresent == PresentInit /\ [][PresentNext]_vars

(* SpecPaint: frames are drawn, measured and presented without I/O errors; *)
(* the screen is a grid that the queued commands update, a grapheme taking *)
(* the columns its cells take in the frame.                                *)

PaintSizes == {Size(3, 1), Size(2, 1)}
\* What is drawn and where: a narrow grapheme in two styles, and a wide one
\* that fits at the first column and not always at the second.
PaintWrites ==
    {[pos |-> Pos(0, 0), text |-> <<"a">>, style |-> Red],
     [pos |-> Pos(0, 0), text |-> <<"a">>, style |-> OnBlue],
     [pos |-> Pos(0, 0), text |-> <<"W">>, style |-> Red],
     [pos |-> Pos(1, 0), text |-> <<"W">>, style |-> Red]}

PaintInit ==
    /\ BufIdle /\ WrapIdle /\ BalIdle /\ StyledIdle /\ WidthIdle
    /\ term = NewTerminal
    /\ screen \in {JunkScreen(s) : s \in PaintSizes}
    /\ tout = <<>>
    /\ tres = NoResult
    /\ thist = [ev |-> TRUE, first |-> TRUE, failed |-> FALSE]
    /\ tdraws = 0

\* A call that queues nothing.
Silent == tout' = <<>> /\ tres' = NoResult /\ UNCHANGED <<thist, notTerm>>

\* autoresize when the terminal has size s; after the user resized it the
\* grid holds unknown content.
PaintAutoresize ==
    \E s \in PaintSizes :
        /\ term' = Autoresize(term, s)
        /\ screen' = IF s # screen.size THEN JunkScreen(s) ELSE screen
        /\ tdraws' = IF s # FrameSize(term.frame) THEN 0 ELSE tdraws
        /\ Silent

PaintMarkDirty ==
    /\ term' = mark_dirty(term)
    /\ UNCHANGED <<screen, tdraws>>
    /\ Silent

PaintSetMeasuring ==
    \E active \in BOOLEAN :
        /\ term' = set_measuring(term, active)
        /\ UNCHANGED <<screen, tdraws>>
        /\ Silent

\* The columns a terminal reports that shows every glyph two columns wide.
WideCols == [g \in {"a", "W", " "} |-> 2]

\* measure_widths prints the graphemes it measures onto the screen.
PaintMeasureWidths ==
    /\ measuring_required(term.frame.widthdb)
    /\ \E cols \in {TrueCols, WideCols} : term' = TerminalMeasureWidths(term, cols)
    /\ screen' = JunkScreen(screen.size)
    /\ UNCHANGED tdraws
    /\ Silent

PaintWrite ==
    \E w \in PaintWrites :
        /\ tdraws < PaintDraws
        /\ term.frame.buffer.size.width > 0
        /\ term' = [term EXCEPT !.frame = FrameWrite(@, w.pos, w.text, w.style)]
        /\ tdraws' = tdraws + 1
        /\ UNCHANGED screen
        /\ Silent

\* present; the terminal has the size of the frame, or the frame has no
\* cells because autoresize was not called yet.
PaintPresent ==
    /\ term.frame.buffer.size \in {screen.size, Size(0, 0)}
    /\ term' = PresentOk(term)
    /\ tout' = PresentQueue(term)
    /\ tres' = Presenting
    /\ screen' = Paint(screen, PresentQueue(term), 1, Pos(0, 0), term.frame.buffer)
    /\ tdraws' = 0
    /\ UNCHANGED <<thist, notTerm>>

PaintNext ==
    \/ PaintAutoresize \/ PaintMarkDirty \/ PaintSetMeasuring \/ PaintMeasureWidths
    \/ PaintWrite \/ PaintPresent

SpecPaint == PaintInit /\ [][PaintNext]_vars

---------------------------------------------------------------------------
(* SpecFlex: balance of three segments with small requests, some of size 0 *)

FlexSegs == 3        \* segments handed to balance

\* Segments that can grow, shrink or both.
FlexChoices ==
    {Segment(m, w, f[1], f[2]) :
        m \in {0, 1, 3}, w \in {1, 2},
        f \in {<<TRUE, TRUE>>, <<TRUE, FALSE>>, <<FALSE, TRUE>>}}

FlexInit ==
    /\ BufIdle /\ TermIdle /\ WrapIdle /\ StyledIdle /\ WidthIdle
    /\ segs \in [1..FlexSegs -> FlexChoices]
    /\ bal = NoResult

SpecFlex == FlexInit /\ [][BalNext]_vars

---------------------------------------------------------------------------
(* SpecLoop: balance taken one pass of its retain loop at a time           *)

LoopSegs == 3        \* longest segment list handed to balance

\* Segments with and without weight, with and without size, fixed ones and
\* one that makes the sum of the requests pass 65535.
LoopChoices ==
    {Segment(0, 1, TRUE, TRUE), Segment(0, 0, TRUE, TRUE), Segment(1, 1, TRUE, TRUE),
     Segment(3, 0, TRUE, TRUE), Segment(3, 2, TRUE, TRUE), Segment(3, 1, FALSE, TRUE),
     Segment(3, 1, TRUE, FALSE), Segment(U16Max, 1, TRUE, TRUE)}

LoopAvailable == {0, 2, 5, 7, U16Max}

\* One pass of the loop of grow or shrink: the weights are reset when none
\* is left, the segments that need no change are dropped and their sizes
\* taken off available.
RetainPass(ss, ix, available, shrinking) ==
    LET ws == ResetWeights(ss, ix)
        total == total_weight(ws, ix)
        keep == SelectSeq(ix, LAMBDA k : MayNeedChange(ws[k], total, available, shrinking))
        gone == SelectSeq(ix, LAMBDA k : ~MayNeedChange(ws[k], total, available, shrinking))
        removed == SumMajor(ws, gone)
    IN [ss |-> ws, ix |-> keep, removed |-> removed,
        panic |-> IF shrinking /\ \E j \in DOMAIN gone : ws[gone[j]].major > available
                  THEN "assert major <= available"
                  ELSE IF removed > available THEN "available - removed"
                  ELSE "none"]

Balanced(available, r, passes) ==
    [kind |-> "balanced", available |-> available,
     sizes |-> [k \in DOMAIN r.ss |-> r.ss[k].major], panic |-> r.panic, passes |-> passes]

LoopInit ==
    /\ BufIdle /\ TermIdle /\ WrapIdle /\ StyledIdle /\ WidthIdle
    /\ segs = <<>>
    /\ bal = NoResult

\* The caller puts one more segment on the list it is going to balance.
LSegment ==
    \E s \in LoopChoices :
        /\ bal.kind = "none"
        /\ Len(segs) < LoopSegs
        /\ segs' = Append(segs, s)
        /\ UNCHANGED <<bal, notBal>>

\* balance up to the loop: the comparison, the assertion on entry and the
\* first retain.
LEnter ==
    \E available \in LoopAvailable :
        /\ bal.kind = "none"
        /\ LET total == total_size(segs)
               shrinking == total > available
               el == RetainEligible(segs, 1, shrinking, <<>>, available)
           IN bal' = IF total = available
                     THEN Balanced(available, [ss |-> segs, panic |-> "none"], 0)
                     ELSE [kind |-> "loop", given |-> available, shrinking |-> shrinking,
                           ss |-> segs, ix |-> el.ix, available |-> el.available,
                           passes |-> 0]
        /\ UNCHANGED <<segs, notBal>>

\* One pass of the loop, computed once; after a pass that removed no size,
\* the rest of grow or shrink.
LPass ==
    /\ bal.kind = "loop"
    /\ \E p \in {RetainPass(bal.ss, bal.ix, bal.available, bal.shrinking)} :
          bal' = IF p.panic # "none"
                 THEN Balanced(bal.given, p, bal.passes + 1)
                 ELSE IF p.removed = 0
                      THEN Balanced(bal.given, Distribute(p.ss, p.ix, bal.available),
                                    bal.passes + 1)
                      ELSE [bal EXCEPT !.ss = p.ss, !.ix = p.ix,
                                       !.available = @ - p.removed,
                                       !.passes = @ + 1]
    /\ UNCHANGED <<segs, notBal>>

LoopNext == LSegment \/ LEnter \/ LPass

\* The loop is straight-line code: a pass that can run does run.
SpecLoop == LoopInit /\ [][LoopNext]_vars /\ WF_vars(LPass)

---------------------------------------------------------------------------
(* SpecMeasure: measure_widths with what it sends to the terminal          *)

MeasureGraphemes == {"a", "W", "\n"}
MeasuredCols == {1, 2}               \* cursor columns the terminal reports

PrintPlain(g) == [op |-> "Print", content |-> g]

\* A probe that asks for the cursor position before it flushes.
ProbeUnflushed(g) ==
    <<Cmd("Clear"), MoveTo(0, 0), PrintPlain(g), Cmd("Position"), Cmd("Flush")>>

\* What measure_widths exchanges with the terminal for one grapheme: three
\* queued commands, the flush and the query of the cursor position.
Probe(g) == <<Cmd("Clear"), MoveTo(0, 0), PrintPlain(g), Cmd("Flush"), Cmd("Position")>>

\* known.insert(g, width)
Insert(known, g, width) ==
    [h \in (DOMAIN known) \cup {g} |-> IF h = g THEN width ELSE known[h]]

\* The loop of WidthDb::measure_widths over the drained graphemes, in the
\* order the set hands them out.  stop is the place in order and the step
\* of the probe at which the terminal fails, or None.
RECURSIVE Drain(_, _, _, _, _, _)
Drain(db, order, k, cols, stop, log) ==
    IF k > Len(order)
    THEN [db |-> [db EXCEPT !.requested = {}], log |-> log, ok |-> TRUE]
    ELSE IF IsAsciiControl(order[k])
    THEN Drain([db EXCEPT !.known = Insert(@, order[k], 0)], order, k + 1, cols, stop, log)
    ELSE IF stop # None /\ stop.at = k
    THEN [db |-> [db EXCEPT !.requested = {}],
          log |-> log \o SubSeq(Probe(order[k]), 1, stop.step - 1), ok |-> FALSE]
    ELSE Drain([db EXCEPT !.known = Insert(@, order[k], cols[order[k]] % 256)],
               order, k + 1, cols, stop, log \o Probe(order[k]))

\* The orders in which a set can be drained.
Orders(set) ==
    {o \in [1..Cardinality(set) -> set] : \A j, k \in DOMAIN o : j # k => o[j] # o[k]}

MeasureStart == [kind |-> "none", pre |-> DefaultWidthDb, ret |-> "", order |-> <<>>]

MeasureInit ==
    /\ wdb = DefaultWidthDb
    /\ wlast = MeasureStart
    /\ BufIdle /\ TermIdle /\ WrapIdle /\ BalIdle /\ StyledIdle

notMeasure == <<bufVars, term, screen, tres, thist, tdraws, wrapVars, balVars, styledVars>>

\* A call that sends nothing to the terminal.
Unsent(kind) ==
    /\ wlast' = [MeasureStart EXCEPT !.kind = kind, !.pre = wdb]
    /\ tout' = <<>>
    /\ UNCHANGED notMeasure

\* WidthDb::grapheme_width while a frame is drawn
MGraphemeWidth ==
    /\ \E g \in MeasureGraphemes : wdb' = grapheme_width(wdb, g, 0).db
    /\ Unsent("grapheme_width")

MSetMeasuring ==
    /\ \E active \in BOOLEAN : wdb' = set_measuring(WidthTerminal(wdb), active).frame.widthdb
    /\ Unsent("set_measuring")

\* WidthDb::measure_widths, with every answer of the terminal or with a
\* failure at one step of one probe.
MMeasureWidths ==
    \E order \in Orders(wdb.requested) :
    \E cols \in [Printed(wdb.requested) -> MeasuredCols] :
    \E stop \in {None} \cup [at : {k \in DOMAIN order : ~IsAsciiControl(order[k])}, step : 1..5] :
        LET r == IF wdb.measure THEN Drain(wdb, order, 1, cols, stop, <<>>)
                 ELSE [db |-> wdb, log |-> <<>>, ok |-> TRUE]
        IN /\ wdb.measure \/ stop = None
           /\ wdb' = r.db
           /\ tout' = r.log
           /\ wlast' = [kind |-> "measure_widths", pre |-> wdb,
                        ret |-> IF r.ok THEN "Ok" ELSE "Err", order |-> order]
           /\ UNCHANGED notMeasure

MeasureNext == MGraphemeWidth \/ MSetMeasuring \/ MMeasureWidths

SpecMeasure == MeasureInit /\ [][MeasureNext]_vars

---------------------------------------------------------------------------
(* SpecRedraw: the caller's loop of drawing and measuring                  *)

\* The graphemes the frames of the program ask the width of.
RedrawGraphemes == {"a", "W", "\n", Tab}

\* The width database after a draw that asked for the widths of set.
RECURSIVE AskAll(_, _)
AskAll(db, set) ==
    IF set = {} THEN db
    ELSE LET g == CHOOSE h \in set : TRUE
         IN AskAll(grapheme_width(db, g, 0).db, set \ {g})

RedrawStart == [kind |-> "loop", pc |-> "draw", passes |-> 0, pre |-> DefaultWidthDb]

RedrawInit ==
    /\ wdb = DefaultWidthDb
    /\ wlast = RedrawStart
    /\ BufIdle /\ TermIdle /\ WrapIdle /\ BalIdle /\ StyledIdle

\* Terminal::set_measuring between two frames
RSetMeasuring ==
    /\ wlast.pc = "done"
    /\ \E active \in BOOLEAN : wdb' = set_measuring(WidthTerminal(wdb), active).frame.widthdb
    /\ UNCHANGED <<wlast, notWidth>>

\* The program starts to render its next frame.
RNextFrame ==
    /\ wlast.pc = "done"
    /\ wlast' = [RedrawStart EXCEPT !.pre = wdb]
    /\ UNCHANGED <<wdb, notWidth>>

\* The frame is drawn: the widths of some of the graphemes are asked for.
RDraw ==
    /\ wlast.pc = "draw"
    /\ \E asked \in SUBSET RedrawGraphemes : wdb' = AskAll(wdb, asked)
    /\ wlast' = [wlast EXCEPT !.pc = "measure", !.pre = wdb]
    /\ UNCHANGED notWidth

\* Terminal::measure_widths, every query answered: on true the frame is
\* drawn again, on false the loop ends.
RMeasure ==
    /\ wlast.pc = "measure"
    /\ \E cols \in [Printed(wdb.requested) -> MeasuredCols] :
          wdb' = TerminalMeasureWidths(WidthTerminal(wdb), cols).frame.widthdb
    /\ wlast' = IF measuring_required(wdb)
                THEN [wlast EXCEPT !.pc = "draw", !.passes = @ + 1, !.pre = wdb]
                ELSE [wlast EXCEPT !.pc = "done", !.pre = wdb]
    /\ UNCHANGED notWidth

RedrawNext == RSetMeasuring \/ RNextFrame \/ RDraw \/ RMeasure

\* The loop is sequential code: a draw ends, and measure_widths returns
\* when the terminal answers.
SpecRedraw == RedrawInit /\ [][RedrawNext]_vars /\ WF_vars(RDraw) /\ WF_vars(RMeasure)

---------------------------------------------------------------------------
(* SpecEmpty: terminals and Predrawn widgets without columns or rows       *)

EmptyDraws == 2      \* draws into one frame

EmptySizes == {Size(0, 0), Size(0, 1), Size(2, 0), Size(2, 1)}

EmptyWrites ==
    {[pos |-> Pos(0, 0), text |-> <<"a">>, style |-> Red],
     [pos |-> Pos(0, 0), text |-> <<"W">>, style |-> OnBlue],
     [pos |-> Pos(1, 0), text |-> <<"a">>, style |-> OnBlue]}

notEmpty == <<bpre, btouched, nwrites, screen, thist, wrapVars, balVars, styledVars, widthVars>>

\* An assertion that failed has ended the program.
Running == tres.kind # "panic" /\ bop.kind # "panic"

\* Predrawn::draw_impl: every cell the buffer yields is written to the
\* frame in its own style, then the cursor of the buffer is passed on.
RECURSIVE DrawCells(_, _, _)
DrawCells(f, cells, k) ==
    IF k > Len(cells) THEN f
    ELSE DrawCells(FrameWrite(f, Pos(cells[k].x, cells[k].y),
                              <<cells[k].cell.content>>, cells[k].cell.style),
                   cells, k + 1)

draw_impl(b, f) ==
    LET drawn == DrawCells(f, Cells(b), 1)
    IN IF b.cursor # None THEN FrameSetCursor(drawn, b.cursor) ELSE drawn

EmptyInit == BufIdle /\ TermIdle /\ WrapIdle /\ BalIdle /\ StyledIdle /\ WidthIdle

EAutoresize ==
    \E s \in EmptySizes :
        /\ Running
        /\ term' = Autoresize(term, s)
        /\ tdraws' = IF s # FrameSize(term.frame) THEN 0 ELSE tdraws
        /\ tout' = <<>>
        /\ tres' = NoResult
        /\ UNCHANGED <<buf, bop, notEmpty>>

\* Frame::write; a write that fails an assertion is not taken.
EWrite ==
    \E w \in EmptyWrites :
        /\ Running
        /\ tdraws < EmptyDraws
        /\ ~Write(term.frame.buffer, term.frame.widthdb, w.pos, w.text, w.style).panic
        /\ term' = [term EXCEPT !.frame = FrameWrite(@, w.pos, w.text, w.style)]
        /\ tdraws' = tdraws + 1
        /\ tout' = <<>>
        /\ tres' = NoResult
        /\ UNCHANGED <<buf, bop, notEmpty>>

\* Predrawn::new: a frame of its own is resized to the size of the inner
\* widget, which then draws into it.
EPredrawnNew ==
    \E s \in EmptySizes, w \in EmptyWrites :
        LET tmp_frame == [EmptyFrame EXCEPT !.buffer = Resize(@, s)]
        IN /\ Running
           /\ ~Write(tmp_frame.buffer, term.frame.widthdb, w.pos, w.text, w.style).panic
           /\ buf' = FrameWrite(tmp_frame, w.pos, w.text, w.style).buffer
           /\ bop' = [kind |-> "new"]
           /\ UNCHANGED <<term, tout, tres, tdraws, notEmpty>>

\* Predrawn::draw into the frame of the terminal; the iteration of the
\* cells may fail an assertion.
EPredrawnDraw ==
    /\ Running
    /\ bop.kind = "new"
    /\ tdraws < EmptyDraws
    /\ IF CellsAssertionFails(buf, 0, 0)
       THEN bop' = [kind |-> "panic"] /\ UNCHANGED <<term, tdraws>>
       ELSE /\ bop' = [kind |-> "drawn"]
            /\ term' = [term EXCEPT !.frame = draw_impl(buf, @)]
            /\ tdraws' = tdraws + 1
    /\ tout' = <<>>
    /\ tres' = NoResult
    /\ UNCHANGED <<buf, notEmpty>>

\* Terminal::present, every queue call and the flush succeeding; the
\* iteration of the cells in draw_differences may fail an assertion.
EPresent ==
    /\ Running
    /\ IF CellsAssertionFails(term.frame.buffer, 0, 0)
       THEN /\ tres' = [kind |-> "panic", buffer |-> term.frame.buffer]
            /\ tout' = <<Cmd("Begin")>> \o (IF term.full_redraw THEN <<Cmd("Clear")>> ELSE <<>>)
            /\ UNCHANGED <<term, tdraws>>
       ELSE /\ tres' = [kind |-> "ok", buffer |-> term.frame.buffer]
            /\ tout' = PresentQueue(term)
            /\ term' = PresentOk(term)
            /\ tdraws' = 0
    /\ UNCHANGED <<buf, bop, notEmpty>>

EmptyNext == EAutoresize \/ EWrite \/ EPredrawnNew \/ EPredrawnDraw \/ EPresent

SpecEmpty == EmptyInit /\ [][EmptyNext]_vars

---------------------------------------------------------------------------
(* Cells and spans, for the properties below *)

CellX(size, i) == (i - 1) % size.width
CellY(size, i) == (i - 1) \div size.width

\* The drawable area as the specification defines it: the cells of the grid that lie
\* inside every frame on the clip stack.
InEveryFrame(b, i) ==
    \A k \in 1..Len(b.stack) :
        LET f == b.stack[k]
        IN /\ f.pos.x <= CellX(b.size, i) /\ CellX(b.size, i) < f.pos.x + f.size.width
           /\ f.pos.y <= CellY(b.size, i) /\ CellY(b.size, i) < f.pos.y + f.size.height

\* The data indices of the grapheme that cell i of data belongs to.
SpanOf(data, i) == (i - data[i].offset)..(i - data[i].offset + data[i].width - 1)

\* C1: a write changes no cell outside the drawable area (the cells inside
\* every frame of the clip stack).
C1_WriteStaysInDrawableArea ==
    bop.kind = "write" =>
        \A i \in DOMAIN buf.data : ~InEveryFrame(buf, i) => buf.data[i] = bpre[i]

\* C3: after a write that placed a cell on an existing multi-column
\* grapheme, every cell of that grapheme the write did not place is blank
\* (space, width 1, offset 0) and keeps the style it had.
C3_OverwriteErasesWholeGrapheme ==
    bop.kind = "write" =>
        \A i \in DOMAIN bpre :
            (/\ bpre[i].width > 1
             /\ i \notin btouched
             /\ SpanOf(bpre, i) \cap btouched # {})
            => buf.data[i] = [Blank EXCEPT !.style = bpre[i].style]

C3_Witness ==
    /\ bop.kind = "write"
    /\ \E i \in DOMAIN bpre :
          /\ bpre[i].width > 1
          /\ bpre[i].offset = 0
          /\ i \notin btouched
          /\ (i + 1) \in btouched
          /\ bpre[i].style # bop.style

\* The style the specification expects on a cell that had style old and is written
\* with style new: Style::cover of the new, transparent style over the old.
Covered(new, old) ==
    Cover([content_style |-> new, opaque |-> FALSE],
          [content_style |-> old, opaque |-> FALSE]).content_style

\* C10: every cell a write places carries the cover of the new style over
\* the style the cell had before (the styles written are not opaque).
C10_PlacedCellCarriesCover ==
    bop.kind = "write" =>
        \A i \in btouched : buf.data[i].style = Covered(bop.style, bpre[i].style)

(* What a finished present queued, read off the command list. *)

\* The frame a successful present showed: the buffers were swapped.
Presented == term.prev_frame_buffer

\* The cell the diff of the last present compared cell i against: the
\* previous buffer, which is blank when a full redraw was due.
PrevCell(i) == IF tres.redraw THEN Blank ELSE tres.prev[i]

\* The cells of the presented frame that start a grapheme and are unequal
\* to the previous buffer's cell at the same place.
HeadDiff ==
    {i \in DOMAIN Presented.data :
        Presented.data[i].offset = 0 /\ Presented.data[i] # PrevCell(i)}

\* The positions in the command list of a MoveTo directly followed by a
\* PrintStyledContent.
Pairs ==
    {j \in 1..(Len(tout) - 1) : tout[j].op = "MoveTo" /\ tout[j + 1].op = "Print"}

Prints == {j \in 1..Len(tout) : tout[j].op = "Print"}

Clears == {j \in 1..Len(tout) : tout[j].op = "Clear"}

\* The pair at j as <<data index, content, style>>.
PairAt(j) ==
    <<Index(Presented.size, tout[j].x, tout[j].y), tout[j + 1].content, tout[j + 1].style>>

CellAt(i) == <<i, Presented.data[i].content, Presented.data[i].style>>

\* C2: a successful present queues one MoveTo + PrintStyledContent pair for
\* exactly the head cells of the presented frame that are unequal to the
\* previous buffer's cell at the same coordinates, and no other print; when
\* the two buffers differ in exactly one cell there is exactly one pair.
C2_OnePairPerChangedHeadCell ==
    tres.kind = "ok" =>
        /\ {PairAt(j) : j \in Pairs} = {CellAt(i) : i \in HeadDiff}
        /\ Cardinality(Pairs) = Cardinality(HeadDiff)
        /\ Prints = {j + 1 : j \in Pairs}
        /\ (Cardinality({i \in DOMAIN Presented.data : Presented.data[i] # PrevCell(i)}) = 1
            => Cardinality(Pairs) = 1)

C2_Witness ==
    /\ tres.kind = "ok"
    /\ ~tres.redraw
    /\ Cardinality({i \in DOMAIN Presented.data : Presented.data[i] # PrevCell(i)}) = 1
    /\ Cardinality(Pairs) = 1

\* C4: the first present after construction, a size change seen by
\* autoresize, a measure_widths that measured, mark_dirty or unsuspend
\* queues Clear(All) before any cell command, and when it succeeds it prints
\* every non-blank head cell of the frame; a present with none of these
\* events since the previous successful present queues no Clear.
C4_ClearExactlyAfterRedrawEvents ==
    /\ (tres.kind = "ok" /\ tres.first) =>
          /\ Clears = {2}
          /\ {PairAt(j) : j \in Pairs}
               = {CellAt(i) : i \in {i \in DOMAIN Presented.data :
                                        Presented.data[i].offset = 0 /\ Presented.data[i] # Blank}}
    /\ (tres.kind = "err" /\ tres.first) =>
          \A j \in 1..Len(tout) : tout[j].op \in {"MoveTo", "Print"} => 2 \in Clears
    /\ (tres.kind \in {"ok", "err"} /\ ~tres.ev) => Clears = {}

C4_Witness ==
    /\ tres.kind = "ok"
    /\ tres.first
    /\ Clears = {2}
    /\ \E i \in DOMAIN Presented.data : Presented.data[i] # Blank /\ Presented.data[i] = tres.prev[i]

\* C5: after a failed present, the next successful present leaves the
\* terminal showing exactly the frame it presented.
C5_ScreenShowsFrameAfterFailure ==
    (tres.kind = "ok" /\ tres.afterfail) => ScreenShows(screen, Presented)

(* Wrapped lines *)

IsAscending(bs) == \A j \in 1..(Len(bs) - 1) : bs[j] < bs[j + 1]

RECURSIVE Concat(_)
Concat(lines) == IF lines = <<>> THEN <<>> ELSE Head(lines) \o Concat(Tail(lines))

\* C6: the offsets wrap returns are strictly ascending, each is the byte
\* offset of a grapheme and lies strictly between 0 and the length of the
\* text, and the pieces split_at_indices cuts at them, put together in
\* order, are the text.
C6_WrapOffsetsSplitTheText ==
    /\ wout.kind \in {"wrap", "split"} =>
          /\ IsAscending(wout.breaks)
          /\ \A j \in DOMAIN wout.breaks :
                /\ 0 < wout.breaks[j] /\ wout.breaks[j] < Len(win.text)
                /\ \E k \in DOMAIN grapheme_indices(win.text) :
                      grapheme_indices(win.text)[k] = wout.breaks[j]
    /\ wout.kind = "split" =>
          /\ ~wout.panic
          /\ Len(wout.lines) = Len(wout.breaks) + 1
          /\ Concat(wout.lines) = win.text

C6_Witness ==
    /\ wout.kind = "split"
    /\ Len(wout.breaks) >= 2
    /\ \E j \in DOMAIN win.text : win.text[j] = Continuation
    /\ \E k \in DOMAIN wout.lines : Len(wout.lines[k]) > 1
    /\ Concat(wout.lines) = win.text

\* The display width of a line written from column 0, without its trailing
\* whitespace; acc is [col, trimmed].
RECURSIVE LineWidths(_, _, _, _)
LineWidths(db, gs, k, acc) ==
    IF k > Len(gs) THEN acc
    ELSE LET col == acc.col + grapheme_width(db, gs[k], acc.col).width
         IN LineWidths(db, gs, k + 1,
                       [col |-> col,
                        trimmed |-> IF IsWhitespace(gs[k]) THEN acc.trimmed ELSE col])

TrimmedWidth(line) == LineWidths(WrapDb, Graphemes(line), 1, [col |-> 0, trimmed |-> 0]).trimmed

SingleOverWide(line) ==
    /\ Len(Graphemes(line)) = 1
    /\ grapheme_width(WrapDb, Graphemes(line)[1], 0).width > win.width

\* C7: every line wrap produces, except a line that is one grapheme wider
\* than the width, has a display width without trailing whitespace,
\* measured from column 0 of the line, of at most the width.
C7_LinesFitTheWidth ==
    wout.kind = "split" =>
        \A k \in DOMAIN wout.lines :
            SingleOverWide(wout.lines[k]) \/ TrimmedWidth(wout.lines[k]) <= win.width

(* Balanced segments *)

RECURSIVE SumSeq(_)
SumSeq(ns) == IF ns = <<>> THEN 0 ELSE Head(ns) + SumSeq(Tail(ns))

Requests == [k \in DOMAIN segs |-> segs[k].major]

\* The sizes of the segments that cannot shrink.
FixedWhenShrinking == [k \in DOMAIN segs |-> IF segs[k].shrinking THEN 0 ELSE segs[k].major]

\* C8: after balance the sizes sum to available whenever the requests sum
\* to less and a segment is growable, or sum to more and a segment is
\* shrinkable; and no size changes when the requests sum to available.
\* Stated for the inputs that allow it: requests that sum to at most 65535
\* and, when shrinking, non-shrinkable segments that fit into available.
C8_SizesSumToAvailable ==
    (bal.kind = "balanced" /\ SumSeq(Requests) <= U16Max) =>
        /\ (SumSeq(Requests) < bal.available /\ \E k \in DOMAIN segs : segs[k].growing)
              => SumSeq(bal.sizes) = bal.available
        /\ (/\ SumSeq(Requests) > bal.available
            /\ \E k \in DOMAIN segs : segs[k].shrinking
            /\ SumSeq(FixedWhenShrinking) <= bal.available)
              => SumSeq(bal.sizes) = bal.available
        /\ SumSeq(Requests) = bal.available => bal.sizes = Requests

EqualWeightAndFlexibility ==
    \A j, k \in DOMAIN segs :
        /\ segs[j].weight = segs[k].weight
        /\ segs[j].growing = segs[k].growing
        /\ segs[j].shrinking = segs[k].shrinking

\* The first k segments are one larger than their request, the others as
\* requested.
FirstGrewByOne(k) ==
    /\ k <= Len(segs)
    /\ \A j \in DOMAIN segs :
          bal.sizes[j] = segs[j].major + (IF j <= k THEN 1 ELSE 0)

\* C9 as the specification states it: when all segments have the same
\* weight and flexibility and available exceeds the requests by k, the
\* first k segments end one larger and the others unchanged.
C9_FirstKGrowByOne ==
    (/\ bal.kind = "balanced"
     /\ EqualWeightAndFlexibility
     /\ bal.available > SumSeq(Requests))
    => FirstGrewByOne(bal.available - SumSeq(Requests))

\* C9, amended: the same, for growable segments that all request the same
\* size, and k at most the number of segments.
C9_FirstKGrowByOneWhenEqualRequests ==
    (/\ bal.kind = "balanced"
     /\ EqualWeightAndFlexibility
     /\ \A j \in DOMAIN segs : segs[j].growing /\ segs[j].major = segs[1].major
     /\ bal.available > SumSeq(Requests)
     /\ bal.available - SumSeq(Requests) <= Len(segs))
    => FirstGrewByOne(bal.available - SumSeq(Requests))

C9_Witness ==
    /\ bal.kind = "balanced"
    /\ EqualWeightAndFlexibility
    /\ Len(segs) >= 2
    /\ \A j \in DOMAIN segs : segs[j].growing /\ segs[j].major = segs[1].major
    /\ bal.available - SumSeq(Requests) = Len(segs) - 1
    /\ bal.sizes[1] = segs[1].major + 1
    /\ bal.sizes[Len(segs)] = segs[1].major


---------------------------------------------------------------------------
(* Styled texts *)

\* The style StyledGraphemeIndices::next hands out for the byte at offset gi:
\* that of the first run that ends after gi; None when the runs stop short.
RECURSIVE StyleFrom(_, _, _)
StyleFrom(styles, k, gi) ==
    IF k > Len(styles) THEN None
    ELSE IF gi >= styles[k].until THEN StyleFrom(styles, k + 1, gi)
    ELSE Some(styles[k].style)

StyleAt(s, gi) == StyleFrom(s.styles, 1, gi)

\* The run table ends at the length of the text.
RunsEndAtText(s) ==
    IF s.styles = <<>> THEN s.text = <<>>
    ELSE s.styles[Len(s.styles)].until = Len(s.text)

\* C11: after split_at(mid) on a character boundary, the left text followed
\* by the right text is the original text, every byte of the two parts has
\* the style it had in the original, and the run table of each part ends at
\* the length of that part's text.
C11_SplitKeepsTextAndStyles ==
    sres.kind = "split" =>
        /\ sres.left.text \o sres.right.text = sty.text
        /\ \A gi \in 0..(Len(sres.left.text) - 1) :
              StyleAt(sres.left, gi) = StyleAt(sty, gi)
        /\ \A gi \in 0..(Len(sres.right.text) - 1) :
              StyleAt(sres.right, gi) = StyleAt(sty, sres.mid + gi)
        /\ RunsEndAtText(sres.left)
        /\ RunsEndAtText(sres.right)


---------------------------------------------------------------------------
(* The width database *)

\* The last call was grapheme_width for a grapheme other than a tab.
WidthAsked == wlast.kind = "grapheme_width" /\ wlast.g # Tab

\* C12 as stated: once a width is recorded for a grapheme, a later
\* grapheme_width call for it does not add it to the pending set and returns
\* the recorded width, whatever the estimation and measurement settings are.
C12_RecordedWidthIsReturned ==
    (WidthAsked /\ wlast.g \in DOMAIN wlast.first) =>
        /\ wlast.g \notin wdb.requested
        /\ wlast.width = wlast.first[wlast.g]

\* C12, amended: once a width is recorded for a grapheme, no later
\* grapheme_width call adds it to the pending set, whatever the settings;
\* a later call made while measurement is enabled returns the recorded
\* width, whatever the estimation setting.
C12_RecordedWidthIsReturnedWhileMeasuring ==
    (WidthAsked /\ wlast.g \in DOMAIN wlast.first) =>
        /\ wlast.g \notin wdb.requested
        /\ wlast.pre.measure => wlast.width = wlast.first[wlast.g]

\* A recorded width that differs from the estimate is returned after the
\* estimation method was changed.
C12_Witness ==
    /\ WidthAsked
    /\ wlast.g \in DOMAIN wlast.first
    /\ wlast.pre.measure
    /\ wlast.pre.estimate = "Unicode"
    /\ wlast.first[wlast.g] # Estimate(wlast.pre, wlast.g)
    /\ wlast.width = wlast.first[wlast.g]

\* C13: for a grapheme other than a tab, grapheme_width with measurement
\* disabled returns the estimate and changes neither known nor pending; with
\* measurement enabled and the grapheme known it returns the recorded width
\* and changes nothing; with measurement enabled and the grapheme unknown it
\* adds the grapheme to pending and returns the estimate.  It never writes
\* to the terminal.
C13_GraphemeWidthByMode ==
    WidthAsked =>
        LET pre == wlast.pre
            g == wlast.g
        IN /\ wlast.io = 0
           /\ ~wlast.panic
           /\ wdb.known = pre.known
           /\ ~pre.measure =>
                 wlast.width = Estimate(pre, g) /\ wdb = pre
           /\ (pre.measure /\ g \in DOMAIN pre.known) =>
                 wlast.width = pre.known[g] /\ wdb = pre
           /\ (pre.measure /\ g \notin DOMAIN pre.known) =>
                 /\ wlast.width = Estimate(pre, g)
                 /\ wdb = [pre EXCEPT !.requested = @ \cup {g}]

\* An unknown grapheme was queued by the call.
C13_Witness ==
    /\ WidthAsked
    /\ wlast.pre.measure
    /\ wlast.g \notin DOMAIN wlast.pre.known
    /\ wlast.g \notin wlast.pre.requested
    /\ wlast.g \in wdb.requested
    /\ wlast.pre.requested # {}

\* C14: every width measure_widths records for a grapheme without an ASCII
\* control character is at least 1, whatever column the terminal reports.
C14_MeasuredWidthAtLeastOne ==
    wlast.kind = "measure_widths" =>
        \A g \in (DOMAIN wdb.known) \ (DOMAIN wlast.pre.known) :
            ~IsAsciiControl(g) => wdb.known[g] >= 1

\* C15: an entry of the known map is never removed, its width never changes
\* once recorded, and no grapheme is known and pending at the same time.
C15_KnownIsStable ==
    /\ \A g \in DOMAIN wlast.first :
          g \in DOMAIN wdb.known /\ wdb.known[g] = wlast.first[g]
    /\ (DOMAIN wdb.known) \cap wdb.requested = {}

\* A measurement failed after it recorded a grapheme, with older entries in
\* the map.
C15_Witness ==
    /\ wlast.kind = "measure_widths"
    /\ wlast.ret = "Err"
    /\ DOMAIN wlast.pre.known # {}
    /\ DOMAIN wdb.known # DOMAIN wlast.pre.known

\* What C16 says of measuring_required and of the value returned.
RequiredAndReturned ==
    /\ measuring_required(wdb) <=> (wdb.measure /\ wdb.requested # {})
    /\ (wlast.kind = "measure_widths" /\ wlast.ret # "Err") =>
          (wlast.ret = "Ok(true)" <=> measuring_required(wlast.pre))

C17_TabWidthAtColumn ==
    (wlast.kind = "grapheme_width" /\ wlast.g = Tab) =>
        /\ ~wlast.panic
        /\ wlast.width = wlast.pre.tab_width - (wlast.col % wlast.pre.tab_width)
        /\ wlast.width \in 1..wlast.pre.tab_width
        /\ wdb = wlast.pre


---------------------------------------------------------------------------
(* The clip stack *)

\* The rectangle at the local position pos of the given size shares a cell
\* with the drawable area of the frame.
Overlaps(frame, pos, size) ==
    /\ frame.drawable_area # None
    /\ LET da == frame.drawable_area
           g == local_to_global(frame, pos)
       IN /\ \E x \in da.pos.x..(da.pos.x + da.size.width - 1) :
                g.x <= x /\ x < g.x + size.width
          /\ \E y \in da.pos.y..(da.pos.y + da.size.height - 1) :
                g.y <= y /\ y < g.y + size.height

\* The one frame of a buffer without a stack.
WholeGrid(b) ==
    [pos |-> Pos(0, 0), size |-> b.size,
     drawable_area |-> [pos |-> Pos(0, 0), size |-> b.size]]

\* C18: push, write and set_cursor fail no assertion at any position and
\* size; a frame pushed where it does not overlap its parent's drawable
\* area has no drawable area, nor has any frame pushed inside it, and a
\* write inside such a frame changes no cell.
C18_NoAssertionFailsAndEmptyFramesStayEmpty ==
    /\ ~bop.panic
    /\ (bop.kind = "push" /\ ~Overlaps(current_frame(bop.pre), bop.pos, bop.size)) =>
          current_frame(buf).drawable_area = None
    /\ \A k \in 1..(Len(buf.stack) - 1) :
          buf.stack[k].drawable_area = None => buf.stack[k + 1].drawable_area = None
    /\ (bop.kind = "write" /\ current_frame(bop.pre).drawable_area = None) =>
          buf.data = bop.pre.data

---------------------------------------------------------------------------
(* Writes and the cursor *)

\* The index of the cell at the position p, if p lies in the buffer.
CellsAtPos(size, p) ==
    IF InBuffer(size, p.x, p.y) THEN {Index(size, p.x, p.y)} ELSE {}

\* C21: a write sets the cursor to None exactly when it assigns the cell
\* the cursor occupies; otherwise (also when its grapheme covers the
\* cursor's column only in a part that is clipped away) the cursor stays as
\* it was; the clip stack and the size stay the same.
C21_CursorClearedExactlyWhenOverwritten ==
    (bop.kind = "write" /\ ~bop.panic) =>
        /\ buf.size = bop.pre.size
        /\ buf.stack = bop.pre.stack
        /\ bop.pre.cursor = None => buf.cursor = None
        /\ bop.pre.cursor # None =>
              IF CellsAtPos(buf.size, bop.pre.cursor) \cap btouched # {}
              THEN buf.cursor = None
              ELSE buf.cursor = bop.pre.cursor


---------------------------------------------------------------------------
(* Grapheme spans *)

\* The cell i of the grid belongs to a span of equal cells that lies in
\* i's row and whose offsets count up from 0.
Tiled(b, i) ==
    LET c == b.data[i]
        x == CellX(b.size, i)
        first == i - c.offset
    IN /\ 0 <= c.offset /\ c.offset < c.width
       /\ 0 <= x - c.offset
       /\ x - c.offset + c.width - 1 < b.size.width
       /\ \A j \in first..(first + c.width - 1) :
             /\ j \in DOMAIN b.data
             /\ b.data[j].content = c.content
             /\ b.data[j].style = c.style
             /\ b.data[j].width = c.width
             /\ b.data[j].offset = j - first

\* C25: in every buffer reached by resize, reset, push, pop, set_cursor and
\* write, each row is tiled by grapheme spans: a cell with width w and
\* offset o has 0 <= o < w, the w cells from column x - o on lie in its row,
\* carry the same content, style and width, and have the offsets 0..w-1.
C25_RowsAreTiledBySpans ==
    ~bop.panic => \A i \in DOMAIN buf.data : Tiled(buf, i)

\* A wide grapheme was written over a part of another wide grapheme.
C25_Witness ==
    /\ bop.kind = "write" /\ ~bop.panic
    /\ \E i \in btouched :
          /\ bop.pre.data[i].width >= 2
          /\ buf.data[i].width >= 2
          /\ buf.data[i].offset # bop.pre.data[i].offset


---------------------------------------------------------------------------
(* One grapheme against the drawable range *)

\* The last write wrote a single grapheme that is not a tab.
OneGrapheme == bop.kind = "write" /\ ~bop.panic /\ Len(bop.text) = 1 /\ bop.text[1] # Tab

\* C27: a grapheme whose span lies partly inside the drawable x-range makes
\* exactly the cells of the span inside the range blank in the new style; a
\* grapheme whose span lies wholly inside gets its content, width and the
\* offsets 0..width-1 in all its cells; a grapheme whose span lies wholly
\* outside, or whose row is outside the drawable y-range, changes nothing.
C27_GraphemeAgainstDrawableRange ==
    OneGrapheme =>
        LET pre == bop.pre
            frame == current_frame(pre)
            r == legal_ranges(frame)
            g == bop.text[1]
            w == grapheme_width(bop.db, g, 0).width
            gpos == local_to_global(frame, bop.pos)
            span == gpos.x..(gpos.x + w - 1)
        IN IF r = None THEN buf.data = pre.data
           ELSE LET inside == {x \in span : r.x0 <= x /\ x < r.x1}
                IN IF ~(r.y0 <= gpos.y /\ gpos.y < r.y1) \/ inside = {}
                   THEN buf.data = pre.data
                   ELSE /\ btouched = {Index(buf.size, x, gpos.y) : x \in inside}
                        /\ \A x \in inside :
                              At(buf, x, gpos.y) =
                                 IF inside = span
                                 THEN [content |-> g, style |-> bop.style,
                                       width |-> w, offset |-> x - gpos.x]
                                 ELSE [Blank EXCEPT !.style = bop.style]


---------------------------------------------------------------------------
(* Columns within one write *)

\* The width a grapheme resolves to at column c.
ResolvedWidth(db, g, c) ==
    IF g = Tab THEN db.tab_width - (c % db.tab_width)
    ELSE IF db.measure /\ g \in DOMAIN db.known THEN db.known[g]
    ELSE Estimate(db, g)

\* The column of the k-th grapheme of the text: the sum of the resolved
\* widths of the graphemes before it.
RECURSIVE ColumnOf(_, _, _)
ColumnOf(db, text, k) ==
    IF k = 1 THEN 0
    ELSE ColumnOf(db, text, k - 1)
         + ResolvedWidth(db, text[k - 1], ColumnOf(db, text, k - 1))

\* The global columns of the k-th grapheme of the last write.
ColumnsOf(k) ==
    LET c == ColumnOf(bop.db, bop.text, k)
        x == local_to_global(current_frame(bop.pre), bop.pos).x + c
    IN x..(x + ResolvedWidth(bop.db, bop.text[k], c) - 1)

\* C28: within one write the column of each grapheme is the sum of the
\* resolved widths of the graphemes before it, counted from the start
\* position as column 0; a tab at column c becomes
\* tab_width - (c mod tab_width) one-column spaces in the tab's style; a
\* grapheme of width 0 that is not a tab changes no cell.
C28_ColumnsAreSumsOfWidths ==
    (bop.kind = "write" /\ ~bop.panic) =>
        LET frame == current_frame(bop.pre)
            r == legal_ranges(frame)
            y == local_to_global(frame, bop.pos).y
            drawn == r # None /\ r.y0 <= y /\ y < r.y1
            Drawable(x) == drawn /\ r.x0 <= x /\ x < r.x1
            spans == UNION {ColumnsOf(k) : k \in DOMAIN bop.text}
        IN /\ \A i \in btouched :
                CellY(buf.size, i) = y /\ CellX(buf.size, i) \in spans
           /\ \A x \in spans : Drawable(x) => Index(buf.size, x, y) \in btouched
           /\ \A k \in DOMAIN bop.text :
                 LET g == bop.text[k]
                     cols == ColumnsOf(k)
                 IN IF g = Tab
                    THEN \A x \in cols :
                            Drawable(x) =>
                               At(buf, x, y) = [Blank EXCEPT !.style = bop.style]
                    ELSE (\A x \in cols : Drawable(x)) =>
                            \A x \in cols :
                               LET c == At(buf, x, y)
                               IN /\ c.content = g
                                  /\ c.width = Cardinality(cols)
                                  /\ c.offset = Cardinality({x2 \in cols : x2 < x})

\* Under a clip frame a tab that does not start at a tab stop was written
\* after a grapheme left of the drawable range.
C28_Witness ==
    /\ bop.kind = "write" /\ ~bop.panic
    /\ bop.pre.stack # <<>>
    /\ bop.pos.x = -1
    /\ \E k \in DOMAIN bop.text :
          /\ bop.text[k] = Tab
          /\ ColumnOf(bop.db, bop.text, k) % bop.db.tab_width # 0
          /\ \E i \in btouched : CellX(buf.size, i) \in ColumnsOf(k)


---------------------------------------------------------------------------
(* The cells iterator *)

\* The indices of the span that starts at the yielded item c.
YieldedSpan(b, c) ==
    LET i == Index(b.size, c.x, c.y) IN i..(i + c.cell.width - 1)

\* C29: for every buffer reached through writes, cells() fails no
\* assertion and yields a finite sequence in row-major order that holds
\* the head cell of every grapheme span exactly once and no continuation
\* cell, so that the yielded spans cover every cell exactly once.
C29_CellsYieldsEveryHeadOnce ==
    (bop.kind = "write" /\ ~bop.panic) =>
        /\ ~CellsAssertionFails(buf, 0, 0)
        /\ LET cs == Cells(buf)
           IN /\ \A j \in DOMAIN cs : cs[j].cell.offset = 0
              /\ \A j \in 1..(Len(cs) - 1) :
                    \/ cs[j].y < cs[j + 1].y
                    \/ cs[j].y = cs[j + 1].y /\ cs[j].x < cs[j + 1].x
              /\ {Index(buf.size, cs[j].x, cs[j].y) : j \in DOMAIN cs}
                    = {i \in DOMAIN buf.data : buf.data[i].offset = 0}
              /\ \A i \in DOMAIN buf.data :
                    Cardinality({j \in DOMAIN cs : i \in YieldedSpan(buf, cs[j])}) = 1


---------------------------------------------------------------------------
(* Presents without I/O errors *)

\* C22: after a successful present the previous buffer holds exactly the
\* cells of the frame that was presented, and the current frame is empty:
\* every cell blank, clip stack empty, cursor None; the frame's cells reach
\* the previous buffer by the swap of present only.
C22_PresentSwapsAndEmptiesTheFrame ==
    /\ [](tres.kind = "ok" =>
            /\ term.prev_frame_buffer.size = tres.buffer.size
            /\ term.prev_frame_buffer.data = tres.buffer.data
            /\ term.frame.buffer.size = tres.buffer.size
            /\ term.frame.buffer.data = BlankData(term.frame.buffer.size)
            /\ term.frame.buffer.stack = <<>>
            /\ term.frame.buffer.cursor = None
            /\ term.frame.cursor = None)
    /\ [][term'.prev_frame_buffer.data # term.prev_frame_buffer.data =>
             \/ tres'.kind = "ok" /\ term'.prev_frame_buffer.data = term.frame.buffer.data
             \/ term'.prev_frame_buffer.data = BlankData(term'.prev_frame_buffer.size)]_vars

\* A frame with a written cell, a clip frame and a cursor was presented.
C22_Witness ==
    /\ tres.kind = "ok"
    /\ tres.buffer.data # BlankData(tres.buffer.size)
    /\ tres.buffer.stack # <<>>
    /\ tres.cursor # None



\* The places in the queue of the last present where a cell update starts:
\* a MoveTo followed by a Print.
Updates ==
    {j \in 1..(Len(tout) - 1) : tout[j].op = "MoveTo" /\ tout[j + 1].op = "Print"}

\* The places of the cursor commands Show and Hide, and of SetTitle.
CursorCmds == {j \in 1..Len(tout) : tout[j].op \in {"Show", "Hide"}}
TitleCmds == {j \in 1..Len(tout) : tout[j].op = "SetTitle"}

\* C23: within one present the cell updates are queued in row-major order
\* (rows ascending, columns ascending within a row), the cursor command
\* (Show and MoveTo, or Hide) and the SetTitle command come after every
\* cell update, and exactly one cursor command group is queued.
C23_CommandsAreOrdered ==
    tres.kind = "ok" =>
        /\ \A j, k \in Updates :
              j < k => \/ tout[j].y < tout[k].y
                       \/ tout[j].y = tout[k].y /\ tout[j].x < tout[k].x
        /\ Cardinality(CursorCmds) = 1
        /\ \A j \in CursorCmds :
              /\ tout[j].op = "Show" => tout[j + 1].op = "MoveTo"
              /\ \A k \in Updates : k + 1 < j
        /\ \A j \in TitleCmds : \A k \in Updates : k + 1 < j
        /\ \A j \in 1..Len(tout) :
              tout[j].op = "MoveTo" => j \in Updates \/ j - 1 \in CursorCmds

\* A present queued updates of cells in two rows, Show and SetTitle.
C23_Witness ==
    /\ tres.kind = "ok"
    /\ \E j, k \in Updates : tout[j].y < tout[k].y
    /\ \E j, k \in Updates : tout[j].y = tout[k].y /\ tout[j].x < tout[k].x
    /\ \E j \in CursorCmds : tout[j].op = "Show"
    /\ TitleCmds # {}



\* C24: the cursor step of present queues Show and MoveTo(x, y) exactly
\* when the frame's cursor is set and its position (x, y) in the whole
\* buffer has 0 <= x < width and 0 <= y < height of the whole buffer, and
\* Hide otherwise, also when clip frames are left on the stack.
C24_CursorShownAtGlobalPosition ==
    tres.kind = "ok" =>
        LET c == tres.cursor
            size == tres.buffer.size
            inside == /\ c # None
                      /\ 0 <= c.x /\ c.x < size.width
                      /\ 0 <= c.y /\ c.y < size.height
        IN IF inside
           THEN \E j \in 1..(Len(tout) - 1) :
                   /\ tout[j] = Cmd("Show")
                   /\ tout[j + 1] = MoveTo(c.x, c.y)
                   /\ \A k \in 1..Len(tout) : tout[k].op # "Hide"
           ELSE /\ \E j \in 1..Len(tout) : tout[j] = Cmd("Hide")
                /\ \A k \in 1..Len(tout) : tout[k].op # "Show"



\* C26: with the screen as a grid that the queued commands update (Clear
\* blanks every cell, MoveTo and Print of a grapheme of width w set the w
\* cells from the target on), after each successful present the grid equals
\* the presented frame cell for cell in content and style, whatever draws,
\* autoresize, mark_dirty and measure_widths calls came before.
C26_GridEqualsPresentedFrame ==
    tres.kind = "ok" =>
        /\ tres.buffer.size \in {screen.size, Size(0, 0)}
        /\ \A i \in DOMAIN tres.buffer.data :
              /\ screen.cells[i].content = tres.buffer.data[i].content
              /\ screen.cells[i].style = tres.buffer.data[i].style

\* A present without a full redraw changed the style of a cell that kept
\* its content, and blanked a cell of the frame before.
C26_Witness ==
    /\ tres.kind = "ok"
    /\ \A j \in 1..Len(tout) : tout[j].op # "Clear"
    /\ \E j \in 1..Len(tout) : tout[j].op = "Print" /\ tout[j].content # " "
    /\ \E j \in 1..Len(tout) : tout[j].op = "Print" /\ tout[j].content = " "
    /\ term.frame.widthdb.known # <<>>


---------------------------------------------------------------------------
(* The direction of balance *)

\* C30: balance moves no segment against the direction of the adjustment:
\* when the requests sum to less than available no segment ends smaller
\* than its request, and when they sum to more no segment ends larger,
\* also when segments of size 0 are among them.
C30_NoSegmentMovesAgainstTheDirection ==
    (bal.kind = "balanced" /\ bal.panic = "none") =>
        /\ SumSeq(Requests) < bal.available =>
              \A k \in DOMAIN segs : bal.sizes[k] >= segs[k].major
        /\ SumSeq(Requests) > bal.available =>
              \A k \in DOMAIN segs : bal.sizes[k] <= segs[k].major


---------------------------------------------------------------------------
(* Segments that take no part in an adjustment *)

\* Whether the call shrinks (the requests exceed available) or grows.
Shrinks == total_size(segs) > bal.available
Grows == total_size(segs) < bal.available

\* The places of the segments the adjustment may resize, and of the others.
TakesPart(k) == IF Shrinks THEN segs[k].shrinking ELSE segs[k].growing

\* What the segments that take no part leave of available: their sizes are
\* taken off, stopping at 0.
SharedSpace ==
    Max(bal.available
          - SumSeq([k \in DOMAIN segs |-> IF TakesPart(k) THEN 0 ELSE segs[k].major]), 0)

PartSizes == SumSeq([k \in DOMAIN segs |-> IF TakesPart(k) THEN bal.sizes[k] ELSE 0])

\* C31: balance never changes the size of a segment that is not eligible
\* for the adjustment (non-growable when the requests sum to less than
\* available, non-shrinkable when they sum to more), and the space the
\* eligible segments share is available less the sizes of the others, not
\* below 0: whenever balance resizes a segment, the sizes of the eligible
\* segments sum to exactly that.
C31_IneligibleSegmentsKeepTheirSize ==
    (bal.kind = "balanced" /\ bal.panic = "none" /\ (Shrinks \/ Grows)) =>
        /\ \A k \in DOMAIN segs : ~TakesPart(k) => bal.sizes[k] = segs[k].major
        /\ bal.sizes # Requests => PartSizes = SharedSpace

C31_Witness ==
    /\ bal.kind = "balanced" /\ bal.panic = "none"
    /\ Shrinks
    /\ \E j, k \in DOMAIN segs :
          /\ ~segs[j].shrinking /\ segs[j].major = 3 /\ bal.sizes[j] = 3
          /\ segs[k].shrinking /\ segs[k].major = 3 /\ bal.sizes[k] = 1
    /\ bal.available = 4


---------------------------------------------------------------------------
(* Termination and assertions of balance *)

\* C32: for every segment list with non-negative weights (also all weights
\* zero, also the empty list) and every available, balance terminates:
\* every pass of the loop that is followed by another has dropped a
\* segment, so there are at most as many passes as segments plus one, and
\* the call comes to its end.  With exact arithmetic none of its
\* assertions fails and no subtraction goes below zero, and what the
\* passes compute is what balance returns.
C32_BalanceTerminatesWithoutPanic ==
    /\ [][(bal.kind = "loop" /\ bal'.kind = "loop") => Len(bal'.ix) < Len(bal.ix)]_vars
    /\ [](bal.kind = "loop" => bal.passes <= Len(segs))
    /\ [](bal.kind = "balanced" =>
            /\ bal.panic = "none"
            /\ bal.passes <= Len(segs) + 1
            /\ LET r == balance(segs, bal.available)
               IN r.panic = "none" /\ bal.sizes = [k \in DOMAIN r.ss |-> r.ss[k].major])
    /\ (bal.kind = "loop") ~> (bal.kind = "balanced")

C32_Witness ==
    /\ bal.kind = "balanced" /\ bal.panic = "none"
    /\ bal.passes = 3
    /\ \E k \in DOMAIN segs : segs[k].weight = 0
    /\ bal.sizes # Requests


---------------------------------------------------------------------------
(* Mandatory breaks *)

\* The offsets inside the text at which a grapheme follows a line feed: the
\* mandatory break opportunities that lie at the start of a grapheme.
MandatoryOffsets(bytes) ==
    {grapheme_indices(bytes)[k] : k \in {j \in 2..Len(Graphemes(bytes)) :
                                           Graphemes(bytes)[j - 1] = "\n"}}

\* The text from byte offset m on.
TextFrom(bytes, m) == SubSeq(bytes, m + 1, Len(bytes))

\* The lines between the mandatory breaks: every one starts at offset 0 or
\* at a mandatory offset and ends before the next one or at the end.
LineEnd(bytes, m) ==
    LET later == {n \in MandatoryOffsets(bytes) \cup {Len(bytes)} : n > m}
    IN CHOOSE n \in later : \A o \in later : n <= o

MandatoryLines(bytes) ==
    {SubSeq(bytes, m + 1, LineEnd(bytes, m))
       : m \in ({0} \cup MandatoryOffsets(bytes)) \ {Len(bytes)}}

Shifted(bs, m) == [j \in DOMAIN bs |-> bs[j] + m]

\* C33: every mandatory break opportunity at the start of a grapheme inside
\* the text is among the offsets wrap returns, whatever the width; the line
\* starts anew there (widths 0, no allowed break remembered), so the
\* offsets after it are those wrap returns for the rest of the text on its
\* own; and when the width is at least the trimmed display width of every
\* line between mandatory breaks, wrap returns the mandatory offsets and
\* nothing else.
C33_MandatoryBreaksAreReturned ==
    wout.kind = "wrap" =>
        /\ \A m \in MandatoryOffsets(win.text) :
              /\ \E j \in DOMAIN wout.breaks : wout.breaks[j] = m
              /\ SelectSeq(wout.breaks, LAMBDA b : b > m)
                   = Shifted(wrap(WrapDb, TextFrom(win.text, m), win.width).breaks, m)
        /\ (\A line \in MandatoryLines(win.text) : TrimmedWidth(line) <= win.width)
              => {wout.breaks[j] : j \in DOMAIN wout.breaks} = MandatoryOffsets(win.text)

C33_Witness ==
    /\ wout.kind = "wrap"
    /\ \E m \in MandatoryOffsets(win.text) :
          /\ m > 1
          /\ \E j, k \in DOMAIN wout.breaks :
                /\ wout.breaks[j] < m /\ wout.breaks[j] \notin MandatoryOffsets(win.text)
                /\ wout.breaks[k] = m


---------------------------------------------------------------------------
(* What measure_widths sends *)

\* The places in the output at which grapheme g is printed.
PrintsOf(g) == {j \in 1..Len(tout) : tout[j] = PrintPlain(g)}

\* C34: a measure_widths call that returns Ok with measurement enabled
\* handles every pending grapheme exactly once: a grapheme with an ASCII
\* control character is recorded with width 0 and nothing is sent for it;
\* for every other grapheme the terminal receives Clear(All), MoveTo(0,0),
\* Print(grapheme) and a flush, in this order, before the cursor position
\* is queried, and nothing else is sent; afterwards nothing is pending and
\* every grapheme that was pending is known, and the call measures as the
\* width database of the other specifications does.
C34_MeasureHandlesEveryPendingGraphemeOnce ==
    (wlast.kind = "measure_widths" /\ wlast.ret = "Ok" /\ wlast.pre.measure) =>
        /\ \A g \in wlast.pre.requested :
              /\ g \in DOMAIN wdb.known
              /\ IF IsAsciiControl(g)
                 THEN wdb.known[g] = 0 /\ PrintsOf(g) = {}
                 ELSE /\ Cardinality(PrintsOf(g)) = 1
                      /\ \A j \in PrintsOf(g) :
                            /\ j > 2 /\ j + 2 <= Len(tout)
                            /\ tout[j - 2] = Cmd("Clear")
                            /\ tout[j - 1] = MoveTo(0, 0)
                            /\ tout[j + 1] = Cmd("Flush")
                            /\ tout[j + 2] = Cmd("Position")
        /\ Len(tout) = 5 * Cardinality(Printed(wlast.pre.requested))
        /\ wdb.requested = {}
        /\ \E cols \in [Printed(wlast.pre.requested) -> MeasuredCols] :
              wdb = measure_widths(wlast.pre, cols)

C34_Witness ==
    /\ wlast.kind = "measure_widths" /\ wlast.ret = "Ok" /\ wlast.pre.measure
    /\ wlast.pre.requested = {"a", "W", "\n"}
    /\ wlast.order[1] = "W" /\ wlast.order[2] = "\n"
    /\ Len(tout) = 10
    /\ wdb.known["\n"] = 0 /\ wdb.known["W"] = 2


---------------------------------------------------------------------------
(* The loop of drawing and measuring ends *)

\* C35: when the redraws ask for the widths of graphemes of a finite set
\* only and the terminal answers, the loop "draw the frame; if
\* measure_widths() returned true, draw again" ends after at most as many
\* measuring passes as the set has graphemes: no pending grapheme is known
\* already, every pass that returns true makes every pending grapheme (at
\* least one) known, no known grapheme is forgotten, and measure_widths
\* eventually returns false.
C35_RedrawLoopEnds ==
    /\ [](wlast.passes <= Cardinality(RedrawGraphemes))
    /\ [](wdb.requested \cap DOMAIN wdb.known = {})
    /\ [][(wlast.pc = "measure" /\ wlast'.pc = "draw") =>
            /\ wdb.requested # {}
            /\ wdb.requested \subseteq DOMAIN wdb'.known
            /\ Cardinality(DOMAIN wdb'.known) > Cardinality(DOMAIN wdb.known)]_vars
    /\ [][DOMAIN wdb.known \subseteq DOMAIN wdb'.known]_vars
    /\ (wlast.pc # "done") ~> (wlast.pc = "done")

C35_Witness ==
    /\ wlast.pc = "done"
    /\ wlast.passes = 3
    /\ DOMAIN wdb.known = {"a", "W", "\n"}


---------------------------------------------------------------------------
(* A present that fails *)

\* C36: when present returns an I/O error the presentation state is as it
\* was before the call: the buffers are not swapped and the frame is not
\* reset (the frame is the one that was drawn), the previous buffer holds
\* what it held, and a full_redraw flag that was set is still set.
C36_FailedPresentLeavesStateAlone ==
    [][tres'.kind = "err" =>
          /\ term'.frame = term.frame
          /\ term'.prev_frame_buffer = term.prev_frame_buffer
          /\ (term.full_redraw => term'.full_redraw)]_vars


---------------------------------------------------------------------------
(* The two buffers of the terminal *)

\* C37: in every state reachable through the operations of Terminal
\* (construction, autoresize, draws into the frame, present, failed
\* present, measure_widths) the buffer of the current frame and the previous
\* buffer have the same size, so that every coordinate the cells of the
\* current buffer are yielded at is inside the previous buffer the diff
\* looks it up in.
C37_BuffersHaveTheSameSize ==
    /\ term.frame.buffer.size = term.prev_frame_buffer.size
    /\ \A j \in DOMAIN Cells(term.frame.buffer) :
          InBuffer(PrevForDiff(term).size,
                   Cells(term.frame.buffer)[j].x, Cells(term.frame.buffer)[j].y)

C37_Witness ==
    /\ tres.kind = "ok"
    /\ term.prev_frame_buffer.size = Size(2, 1)
    /\ \E j \in DOMAIN term.prev_frame_buffer.data :
          term.prev_frame_buffer.data[j].content = "W"
    /\ thist.failed = FALSE
    /\ ~term.full_redraw
    /\ Len(tout) > 3


---------------------------------------------------------------------------
(* Buffers without columns or without rows *)

NoCells(size) == size.width = 0 \/ size.height = 0

\* C38: for a buffer whose width or height is 0 (a terminal that reports
\* no columns, a Predrawn widget whose inner widget has width 0 and rows),
\* cells() yields the empty sequence, and both present and the drawing of
\* the Predrawn widget complete without an assertion failure.
C38_EmptyBuffersYieldNoCells ==
    /\ (tres.kind \in {"ok", "panic"} /\ NoCells(tres.buffer.size)) =>
          /\ tres.kind = "ok"
          /\ ~CellsAssertionFails(tres.buffer, 0, 0)
          /\ Cells(tres.buffer) = <<>>
    /\ (bop.kind \in {"drawn", "panic"} /\ NoCells(buf.size)) =>
          /\ bop.kind = "drawn"
          /\ ~CellsAssertionFails(buf, 0, 0)
          /\ Cells(buf) = <<>>

=============================================================================
